---- MODULE Spec2Model ----
(***************************************************************************)
(* Typox: a model of the plugin (src/plugin/src/lib.rs) and of the CLI     *)
(* (src/src/main.rs).  Strings are TLA+ strings; a character is a string   *)
(* of length one.  The graph engine (oxigraph), the glob library and the   *)
(* HTTP endpoint are collaborators: they are modelled by what the calling  *)
(* code can observe of them.                                               *)
(***************************************************************************)
EXTENDS Integers, Sequences, FiniteSets, TLC

\* ------------------------------------------------------------------ bounds

\* Longest generated lexical form of a literal.
MaxLexLen == 3

\* Largest number of rows in a generated remote bindings array.
MaxRows == 2

\* ----------------------------------------------------------------- strings

CharAt(s, i) == SubSeq(s, i, i)

StartsWith(s, p) == Len(p) <= Len(s) /\ SubSeq(s, 1, Len(p)) = p

EndsWith(s, p) == Len(p) <= Len(s) /\ SubSeq(s, Len(s) - Len(p) + 1, Len(s)) = p

\* s[n..] of Rust, 0-based n.
DropFirst(s, n) == SubSeq(s, n + 1, Len(s))

RECURSIVE FindFrom(_, _, _)
FindFrom(s, c, i) ==
    IF i > Len(s) THEN 0 ELSE IF CharAt(s, i) = c THEN i ELSE FindFrom(s, c, i + 1)

\* str::find(c): the 1-based position of the first c in s, 0 when there is none.
Find(s, c) == FindFrom(s, c, 1)

Contains(s, c) == Find(s, c) # 0

WhiteSpace == {" ", "\t", "\r", "\n"}

RECURSIVE TrimStart(_)
TrimStart(s) ==
    IF Len(s) > 0 /\ CharAt(s, 1) \in WhiteSpace THEN TrimStart(DropFirst(s, 1)) ELSE s

RECURSIVE TrimEnd(_)
TrimEnd(s) ==
    IF Len(s) > 0 /\ CharAt(s, Len(s)) \in WhiteSpace
    THEN TrimEnd(SubSeq(s, 1, Len(s) - 1))
    ELSE s

\* str::trim
Trim(s) == TrimEnd(TrimStart(s))

LowerAlphabet == "abcdefghijklmnopqrstuvwxyz"

UpperAlphabet == "ABCDEFGHIJKLMNOPQRSTUVWXYZ"

UpperOf == [i \in 1..26 |-> CharAt(UpperAlphabet, i)]

LowerOf == [i \in 1..26 |-> CharAt(LowerAlphabet, i)]

UpperMap == [c \in {LowerOf[i] : i \in 1..26} |-> UpperOf[Find(LowerAlphabet, c)]]

LowerMap == [c \in {UpperOf[i] : i \in 1..26} |-> LowerOf[Find(UpperAlphabet, c)]]

UpperChar(c) == IF c \in DOMAIN UpperMap THEN UpperMap[c] ELSE c

LowerChar(c) == IF c \in DOMAIN LowerMap THEN LowerMap[c] ELSE c

RECURSIVE ToUpper(_)
\* str::to_uppercase, on ASCII text
ToUpper(s) == IF s = "" THEN "" ELSE UpperChar(CharAt(s, 1)) \o ToUpper(DropFirst(s, 1))

RECURSIVE ToLower(_)
ToLower(s) == IF s = "" THEN "" ELSE LowerChar(CharAt(s, 1)) \o ToLower(DropFirst(s, 1))

RECURSIVE Lines(_)
\* str::lines: split at "\n", a final empty piece dropped, a trailing "\r" of a line dropped
Lines(s) ==
    IF s = "" THEN <<>>
    ELSE LET n == Find(s, "\n")
             raw == IF n = 0 THEN s ELSE SubSeq(s, 1, n - 1)
             line == IF EndsWith(raw, "\r") THEN SubSeq(raw, 1, Len(raw) - 1) ELSE raw
         IN  IF n = 0 THEN <<line>> ELSE <<line>> \o Lines(DropFirst(s, n))

\* Characters in byte order, as far as the model's paths use them.
AsciiOrder == "!#*-./0123456789:<>?ABCDEFGHIJKLMNOPQRSTUVWXYZ[]_abcdefghijklmnopqrstuvwxyz"

RankMap == [c \in {CharAt(AsciiOrder, i) : i \in 1..Len(AsciiOrder)} |-> Find(AsciiOrder, c)]

CharRank(c) == IF c \in DOMAIN RankMap THEN RankMap[c] ELSE 0

RECURSIVE StrLess(_, _)
\* a < b in the byte-wise lexicographic order
StrLess(a, b) ==
    IF a = "" THEN b # ""
    ELSE IF b = "" THEN FALSE
    ELSE IF CharAt(a, 1) = CharAt(b, 1) THEN StrLess(DropFirst(a, 1), DropFirst(b, 1))
    ELSE CharRank(CharAt(a, 1)) < CharRank(CharAt(b, 1))

RECURSIVE StringsOfLen(_, _)
\* All strings of exactly n characters drawn from the set chars.
StringsOfLen(chars, n) ==
    IF n = 0 THEN {""}
    ELSE {s \o c : s \in StringsOfLen(chars, n - 1), c \in chars}

StringsUpTo(chars, n) == UNION {StringsOfLen(chars, k) : k \in 0..n}

RECURSIVE ToDecimal(_)
\* usize::to_string
ToDecimal(n) ==
    IF n < 10 THEN CharAt("0123456789", n + 1)
    ELSE ToDecimal(n \div 10) \o CharAt("0123456789", (n % 10) + 1)

\* ------------------------------------------------------------ Result, Option

Ok(v) == [ok |-> TRUE, val |-> v]

Err(e) == [ok |-> FALSE, err |-> e]

None == [some |-> FALSE]

Some(v) == [some |-> TRUE, val |-> v]

\* ----------------------------------------------------------- number parsing

IsDigit(c) == Len(c) = 1 /\ Contains("0123456789", c)

AllDigits(s) == \A i \in 1..Len(s) : IsDigit(CharAt(s, i))

DigitVal(c) == Find("0123456789", c) - 1

RECURSIVE DigitsVal(_)
DigitsVal(s) ==
    IF s = "" THEN 0
    ELSE DigitsVal(SubSeq(s, 1, Len(s) - 1)) * 10 + DigitVal(CharAt(s, Len(s)))

\* The longest digit string the model evaluates; every one is far inside i64.
MaxDigits == 8

DigitsI64(neg, digits) ==
    IF digits = "" \/ ~AllDigits(digits) \/ Len(digits) > MaxDigits
    THEN Err("invalid digit found in string")
    ELSE Ok(IF neg THEN 0 - DigitsVal(digits) ELSE DigitsVal(digits))

SignedI64(s, signed) ==
    DigitsI64(signed /\ CharAt(s, 1) = "-", IF signed THEN DropFirst(s, 1) ELSE s)

\* str::parse::<i64>: an optional sign and at least one digit; anything else,
\* and a value outside the 64-bit range, is an error.
ParseI64(s) == SignedI64(s, Len(s) > 0 /\ CharAt(s, 1) \in {"+", "-"})

RECURSIVE NormDec(_, _)
\* m * 10^(-k) in its one form: m without a trailing zero, zero as <<0, 0>>
NormDec(m, k) ==
    IF m = 0 THEN <<0, 0>>
    ELSE IF m % 10 = 0 THEN NormDec(m \div 10, k - 1)
    ELSE <<m, k>>

FiniteOf(neg, n) == [finite |-> TRUE, neg |-> neg /\ n[1] # 0, m |-> n[1], k |-> n[2]]

\* A finite f64: -1^neg * m * 10^(-k), k of either sign.
Finite(neg, m, k) == FiniteOf(neg, NormDec(m, k))

NonFinite(what) == [finite |-> FALSE, what |-> what]

\* The largest f64 has this many digits before its decimal point.
F64MaxDigits == 309

\* The f64 of m * 10^(-k): infinite when it lies beyond the largest f64.
ScaledF64(neg, m, k) ==
    IF m # 0 /\ Len(ToDecimal(m)) - k > F64MaxDigits THEN Ok(NonFinite("inf"))
    ELSE Ok(Finite(neg, m, k))

\* The f64 of the integer digits ip, the fraction digits fp and the exponent exp.
DecimalF64(neg, ip, fp, exp) ==
    IF ~AllDigits(ip) \/ ~AllDigits(fp) \/ (ip \o fp) = "" \/ ~exp.ok
          \/ Len(ip \o fp) > MaxDigits
    THEN Err("invalid float literal")
    ELSE ScaledF64(neg, DigitsVal(ip \o fp), Len(fp) - exp.val)

MantissaF64(neg, mant, dot, exp) ==
    DecimalF64(neg, IF dot = 0 THEN mant ELSE SubSeq(mant, 1, dot - 1),
               IF dot = 0 THEN "" ELSE DropFirst(mant, dot), exp)

ExponentF64(neg, body, epos) ==
    MantissaF64(neg, IF epos = 0 THEN body ELSE SubSeq(body, 1, epos - 1),
                Find(IF epos = 0 THEN body ELSE SubSeq(body, 1, epos - 1), "."),
                ParseI64(IF epos = 0 THEN "0" ELSE DropFirst(body, epos)))

BodyF64(neg, body) ==
    IF body \in {"inf", "infinity"} THEN Ok(NonFinite("inf"))
    ELSE IF body = "nan" THEN Ok(NonFinite("nan"))
    ELSE ExponentF64(neg, body, Find(body, "e"))

SignedF64(s, signed) ==
    BodyF64(signed /\ CharAt(s, 1) = "-", ToLower(IF signed THEN DropFirst(s, 1) ELSE s))

\* str::parse::<f64>: [sign] (inf | infinity | nan | digits [. digits] [e [sign] digits]),
\* with at least one digit in the mantissa; the letters in any case.
ParseF64(s) == SignedF64(s, Len(s) > 0 /\ CharAt(s, 1) \in {"+", "-"})

\* str::parse::<bool>
ParseBool(s) ==
    IF s = "true" THEN Ok(TRUE) ELSE IF s = "false" THEN Ok(FALSE)
    ELSE Err("provided string was not true or false")

\* -------------------------------------------------------------------- terms

XSD_NS == "http://www.w3.org/2001/XMLSchema#"

XSD_INTEGER == "http://www.w3.org/2001/XMLSchema#integer"

XSD_INT == "http://www.w3.org/2001/XMLSchema#int"

XSD_LONG == "http://www.w3.org/2001/XMLSchema#long"

XSD_SHORT == "http://www.w3.org/2001/XMLSchema#short"

XSD_BYTE == "http://www.w3.org/2001/XMLSchema#byte"

XSD_NON_NEGATIVE_INTEGER == "http://www.w3.org/2001/XMLSchema#nonNegativeInteger"

XSD_POSITIVE_INTEGER == "http://www.w3.org/2001/XMLSchema#positiveInteger"

XSD_UNSIGNED_INT == "http://www.w3.org/2001/XMLSchema#unsignedInt"

XSD_UNSIGNED_LONG == "http://www.w3.org/2001/XMLSchema#unsignedLong"

XSD_UNSIGNED_SHORT == "http://www.w3.org/2001/XMLSchema#unsignedShort"

XSD_UNSIGNED_BYTE == "http://www.w3.org/2001/XMLSchema#unsignedByte"

XSD_DECIMAL == "http://www.w3.org/2001/XMLSchema#decimal"

XSD_DOUBLE == "http://www.w3.org/2001/XMLSchema#double"

XSD_FLOAT == "http://www.w3.org/2001/XMLSchema#float"

XSD_BOOLEAN == "http://www.w3.org/2001/XMLSchema#boolean"

XSD_STRING == "http://www.w3.org/2001/XMLSchema#string"

\* The datatypes main.rs parses as i64 (format_term_typed, format_http_term_typed).
IntegerFamily ==
    {XSD_INTEGER, XSD_INT, XSD_LONG, XSD_SHORT, XSD_BYTE, XSD_NON_NEGATIVE_INTEGER,
     XSD_POSITIVE_INTEGER, XSD_UNSIGNED_INT, XSD_UNSIGNED_LONG, XSD_UNSIGNED_SHORT,
     XSD_UNSIGNED_BYTE}

\* The datatypes main.rs parses as f64.
FloatFamily == {XSD_DECIMAL, XSD_DOUBLE, XSD_FLOAT}

\* oxigraph::model::Term.  A literal of the engine always carries a datatype.
NamedNode(iri) == [kind |-> "NamedNode", iri |-> iri]

BlankNode(id) == [kind |-> "BlankNode", id |-> id]

Literal(value, datatype) == [kind |-> "Literal", value |-> value, datatype |-> datatype]

\* --------------------------------------------------------- serde_json::Value

JNull == [t |-> "Null"]

JBool(b) == [t |-> "Bool", b |-> b]

JString(s) == [t |-> "String", s |-> s]

\* Number::from(i64)
JInt(n) == [t |-> "Number", repr |-> "i64", n |-> n]

\* A Number holding a finite f64.
JFloat(f) == [t |-> "Number", repr |-> "f64", f |-> f]

\* items: a sequence of values
JArray(items) == [t |-> "Array", items |-> items]

\* fields: a function from keys to values
JObject(fields) == [t |-> "Object", fields |-> fields]

\* Number::from_f64: None for NaN and the infinities
from_f64(f) == IF f.finite THEN Some(JFloat(f)) ELSE None

\* json!(num) of an f64: Value::from(f64), Null for NaN and the infinities
json_f64(f) == IF f.finite THEN JFloat(f) ELSE JNull

\* Value::get(key) on an object, None on anything else
JGet(v, key) ==
    IF v.t = "Object" /\ key \in DOMAIN v.fields THEN Some(v.fields[key]) ELSE None

\* Option<&Value>::and_then(as_str)
AsStr(o) == IF o.some /\ o.val.t = "String" THEN Some(o.val.s) ELSE None

\* ------------------------------------------------------------- prefix table

Insert(m, k, v) == [e \in (DOMAIN m) \cup {k} |-> IF e = k THEN v ELSE m[e]]

\* The eight entries extract_prefixes starts from.
DefaultPrefixes ==
    [rdf |-> "http://www.w3.org/1999/02/22-rdf-syntax-ns#",
     rdfs |-> "http://www.w3.org/2000/01/rdf-schema#",
     owl |-> "http://www.w3.org/2002/07/owl#",
     xsd |-> XSD_NS,
     foaf |-> "http://xmlns.com/foaf/0.1/",
     dc |-> "http://purl.org/dc/elements/1.1/",
     dcterms |-> "http://purl.org/dc/terms/",
     skos |-> "http://www.w3.org/2004/02/skos/core#"]

\* The body of the loop of extract_prefixes for one line of the query.
extract_prefixes_line(prefixes, rawline) ==
    LET line == Trim(rawline)
        rest == Trim(DropFirst(line, 6))
        colon_pos == Find(rest, ":")
        prefix == Trim(SubSeq(rest, 1, colon_pos - 1))
        remainder == Trim(DropFirst(rest, colon_pos))
        namespace == SubSeq(remainder, 2, Len(remainder) - 1)
    IN  IF StartsWith(ToUpper(line), "PREFIX") /\ colon_pos # 0
           /\ StartsWith(remainder, "<") /\ EndsWith(remainder, ">")
        THEN Insert(prefixes, prefix, namespace)
        ELSE prefixes

RECURSIVE extract_prefixes_from(_, _)
extract_prefixes_from(prefixes, lines) ==
    IF lines = <<>> THEN prefixes
    ELSE extract_prefixes_from(extract_prefixes_line(prefixes, Head(lines)), Tail(lines))

extract_prefixes(query) == extract_prefixes_from(DefaultPrefixes, Lines(query))

RECURSIVE SeqOfSet(_)
SeqOfSet(S) ==
    IF S = {} THEN <<>>
    ELSE LET e == CHOOSE a \in S : \A b \in S : a = b \/ StrLess(a, b)
         IN  <<e>> \o SeqOfSet(S \ {e})

\* The orders in which an iteration over the HashMap may yield its keys.  The
\* order of a HashMap is unspecified; a scan that stops at the first match
\* depends only on which key comes first among the matching ones, so one order
\* per leading key stands for all of them.
IterationOrders(prefixes) ==
    LET sorted == SeqOfSet(DOMAIN prefixes)
    IN  {<<k>> \o SelectSeq(sorted, LAMBDA e : e # k) : k \in DOMAIN prefixes}

RECURSIVE shorten_uri(_, _, _)
\* for (prefix, namespace) in prefixes { if uri.starts_with(namespace) { return ... } }
\* and the uri itself after the loop; order is the order of the iteration.
shorten_uri(uri, prefixes, order) ==
    IF order = <<>> THEN uri
    ELSE LET prefix == Head(order)
             namespace == prefixes[prefix]
         IN  IF StartsWith(uri, namespace)
             THEN prefix \o ":" \o DropFirst(uri, Len(namespace))
             ELSE shorten_uri(uri, prefixes, Tail(order))

\* --------------------------------------------------------- term projection

\* Ok(n) of a parse as a JSON integer
int_number(parsed) == IF parsed.ok THEN Some(JInt(parsed.val)) ELSE None

\* Ok(f) of a parse as a JSON number: Number::from_f64
float_number(parsed) == IF parsed.ok THEN from_f64(parsed.val) ELSE None

\* if let Some(v) = first { return v }; second
or_else(first, second) == IF first.some THEN first.val ELSE second

\* The tail of both CLI projectors: bare i64, then bare finite f64, then the string.
bare_numeric(value_str) ==
    or_else(int_number(ParseI64(value_str)),
            or_else(float_number(ParseF64(value_str)), JString(value_str)))

\* The datatype match of both CLI projectors: Some(number) when it returns early.
typed_numeric(value_str, datatype_str) ==
    IF datatype_str \in IntegerFamily THEN int_number(ParseI64(value_str))
    ELSE IF datatype_str \in FloatFamily THEN float_number(ParseF64(value_str))
    ELSE None

\* main.rs format_term_typed
format_term_typed(term, prefixes, order) ==
    IF term.kind = "NamedNode" THEN JString(shorten_uri(term.iri, prefixes, order))
    ELSE IF term.kind = "BlankNode" THEN JString("_:" \o term.id)
    ELSE or_else(typed_numeric(term.value, term.datatype), bare_numeric(term.value))

\* main.rs format_http_term_typed on the "type" and "datatype" members it read
http_term_value(value_str, type, datatype, prefixes, order) ==
    IF type = Some("uri") THEN JString(shorten_uri(value_str, prefixes, order))
    ELSE IF type = Some("bnode") THEN JString("_:" \o value_str)
    ELSE IF type = Some("literal")
    THEN or_else(IF datatype.some THEN typed_numeric(value_str, datatype.val) ELSE None,
                 bare_numeric(value_str))
    ELSE JString(value_str)

\* main.rs format_http_term_typed; value_map is the fields of the binding's object
format_http_term_typed(value_str, value_map, prefixes, order) ==
    http_term_value(value_str, AsStr(JGet(JObject(value_map), "type")),
                    AsStr(JGet(JObject(value_map), "datatype")), prefixes, order)

\* if let Ok(num) = parse { json!(num) } else { json!(value) }
int_or_string(parsed, value) == IF parsed.ok THEN JInt(parsed.val) ELSE JString(value)

float_or_string(parsed, value) == IF parsed.ok THEN json_f64(parsed.val) ELSE JString(value)

bool_or_string(parsed, value) == IF parsed.ok THEN JBool(parsed.val) ELSE JString(value)

\* lib.rs query: the value of one (var, term) of a solution
query_term_value(term) ==
    IF term.kind = "NamedNode" THEN JString(term.iri)
    ELSE IF term.kind = "BlankNode" THEN JString("_:" \o term.id)
    ELSE IF term.datatype \in {XSD_INTEGER, XSD_INT, XSD_LONG}
    THEN int_or_string(ParseI64(term.value), term.value)
    ELSE IF term.datatype \in {XSD_DECIMAL, XSD_DOUBLE, XSD_FLOAT}
    THEN float_or_string(ParseF64(term.value), term.value)
    ELSE IF term.datatype = XSD_BOOLEAN
    THEN bool_or_string(ParseBool(term.value), term.value)
    ELSE JString(term.value)

\* ------------------------------------------------------ serialized output

RECURSIVE JoinWith(_, _)
\* the strings of a sequence, sep between them
JoinWith(strs, sep) ==
    IF strs = <<>> THEN ""
    ELSE IF Len(strs) = 1 THEN strs[1]
    ELSE strs[1] \o sep \o JoinWith(Tail(strs), sep)

RECURSIVE Zeros(_)
Zeros(n) == IF n <= 0 THEN "" ELSE "0" \o Zeros(n - 1)

\* i64::to_string
IntText(n) == IF n < 0 THEN "-" \o ToDecimal(0 - n) ELSE ToDecimal(n)

\* The digits of an f64 with the decimal point after the first kk of them, as
\* serde_json writes it: always with a fraction ("100.0", "1.5"), and with an
\* exponent outside 1e-5 .. 1e16.
PointText(digits, kk) ==
    IF Len(digits) <= kk /\ kk <= 16 THEN digits \o Zeros(kk - Len(digits)) \o ".0"
    ELSE IF 0 < kk /\ kk <= 16 THEN SubSeq(digits, 1, kk) \o "." \o DropFirst(digits, kk)
    ELSE IF 0 - 5 < kk /\ kk <= 0 THEN "0." \o Zeros(0 - kk) \o digits
    ELSE IF Len(digits) = 1 THEN digits \o "e" \o IntText(kk - 1)
    ELSE SubSeq(digits, 1, 1) \o "." \o DropFirst(digits, 1) \o "e" \o IntText(kk - 1)

FloatText(f) ==
    (IF f.neg THEN "-" ELSE "") \o PointText(ToDecimal(f.m), Len(ToDecimal(f.m)) - f.k)

RECURSIVE JsonText(_)
\* serde_json::to_string; the keys of an object in sorted order.  The strings of
\* the model hold no character that JSON escapes.
JsonText(v) ==
    IF v.t = "Null" THEN "null"
    ELSE IF v.t = "Bool" THEN (IF v.b THEN "true" ELSE "false")
    ELSE IF v.t = "String" THEN "\"" \o v.s \o "\""
    ELSE IF v.t = "Number"
    THEN (IF v.repr = "i64"
          THEN IntText(v.n)
          ELSE FloatText(v.f))
    ELSE IF v.t = "Array"
    THEN "[" \o JoinWith([i \in 1..Len(v.items) |-> JsonText(v.items[i])], ",") \o "]"
    ELSE LET keys == SeqOfSet(DOMAIN v.fields)
         IN  "{" \o JoinWith([i \in 1..Len(keys) |->
                        "\"" \o keys[i] \o "\":" \o JsonText(v.fields[keys[i]])], ",") \o "}"

\* Term as the Turtle serializer writes it.
TermText(term) ==
    IF term.kind = "NamedNode" THEN "<" \o term.iri \o ">"
    ELSE IF term.kind = "BlankNode" THEN "_:" \o term.id
    ELSE "\"" \o term.value \o "\"^^<" \o term.datatype \o ">"

\* RdfSerializer::from_format(Turtle) over a sequence of triples.
TurtleText(triples) ==
    JoinWith([i \in 1..Len(triples) |->
                TermText(triples[i].s) \o " " \o TermText(triples[i].p) \o " "
                    \o TermText(triples[i].o) \o " .\n"], "")

\* ------------------------------------------------------------- the engine

\* The triples a store of the model can hold.
TA == [s |-> NamedNode("http://e/a"), p |-> NamedNode("http://e/p"),
       o |-> Literal("7", XSD_INTEGER)]

TB == [s |-> NamedNode("http://e/b"), p |-> NamedNode("http://e/p"),
       o |-> NamedNode("http://e/a")]

\* The order in which the engine yields triples.
TripleOrder == <<TA, TB>>

Triples == {TripleOrder[i] : i \in 1..Len(TripleOrder)}

\* Graph data as a byte buffer: the syntax it is written in and what it states.
Data(syntax, triples) == [syntax |-> syntax, triples |-> triples]

\* The parser of load_from_reader: N-Triples is a subset of Turtle.
ParseGraph(format, data) ==
    IF data.syntax = format \/ (format = "Turtle" /\ data.syntax = "NTriples")
    THEN Ok(data.triples)
    ELSE Err("syntax error")

\* Store::load_from_reader: atomic, the store is unchanged when parsing fails.
load_from_reader(store, format, data) ==
    LET parsed == ParseGraph(format, data)
    IN  IF parsed.ok THEN [store |-> store \cup parsed.val, res |-> Ok("loaded")]
        ELSE [store |-> store, res |-> Err(parsed.err)]

ContainsStr(s, sub) == \E i \in 1..(Len(s) - Len(sub) + 1) : SubSeq(s, i, i + Len(sub) - 1) = sub

RECURSIVE QueryKeyword(_)
\* The first word of the query after its prologue.
QueryKeyword(lines) ==
    IF lines = <<>> THEN ""
    ELSE LET line == ToUpper(Trim(Head(lines)))
         IN  IF line = "" \/ StartsWith(line, "PREFIX") THEN QueryKeyword(Tail(lines))
             ELSE IF StartsWith(line, "SELECT") THEN "SELECT"
             ELSE IF StartsWith(line, "ASK") THEN "ASK"
             ELSE IF StartsWith(line, "CONSTRUCT") THEN "CONSTRUCT"
             ELSE ""

\* The triples of the store the query's pattern matches: the queries of the
\* model match every triple, or none when they filter on false.
Matched(store, sparql) ==
    IF ContainsStr(sparql, "FILTER(false)") THEN <<>>
    ELSE SelectSeq(TripleOrder, LAMBDA t : t \in store)

\* Store::query: the shape of the result follows from the form of the query.
EngineQuery(store, sparql) ==
    LET kw == QueryKeyword(Lines(sparql))
        m == Matched(store, sparql)
    IN  IF kw = "SELECT"
        THEN Ok([shape |-> "Solutions", rows |-> [i \in 1..Len(m) |-> [s |-> m[i].s, o |-> m[i].o]]])
        ELSE IF kw = "ASK" THEN Ok([shape |-> "Boolean", b |-> m # <<>>])
        ELSE IF kw = "CONSTRUCT" THEN Ok([shape |-> "Graph", triples |-> m])
        ELSE Err("error at 1:1: expected one of ASK, CONSTRUCT, SELECT")

\* -------------------------------------------------------------- the plugin

\* A byte buffer holding text: valid UTF-8 or not.
Utf8(text) == [utf8 |-> TRUE, text |-> text]

NotUtf8 == [utf8 |-> FALSE, text |-> ""]

\* String::from_utf8
FromUtf8(bytes) ==
    IF bytes.utf8 THEN Ok(bytes.text) ELSE Err("invalid utf-8 sequence of 1 bytes from index 0")

\* What a plugin function leaves behind: the two statics, the returned buffer,
\* and the shape the engine reported ("" when the engine was not asked).
Outcome(S, I, ret, shape) ==
    [STORES |-> S, INITIALIZED |-> I, ret |-> ret, shape |-> shape, trap |-> FALSE]

\* A panic inside a plugin function: the call traps and returns no buffer.
Trapped(S, I) ==
    [STORES |-> S, INITIALIZED |-> I, ret |-> "", shape |-> "", trap |-> TRUE]

\* ensure_stores without its guard: the map is made anew on every call.
ensure_stores_unguarded(S, I, created) ==
    IF created.ok
    THEN [STORES |-> Some([n \in {"memory"} |-> created.val]), INITIALIZED |-> TRUE,
          panicked |-> FALSE]
    ELSE [STORES |-> S, INITIALIZED |-> I, panicked |-> TRUE]

\* lib.rs ensure_stores; created is what Store::new() returns should it be
\* called, and unwrap() panics on its Err.
ensure_stores(S, I, created) ==
    IF ~I /\ ~S.some
    THEN (IF created.ok
          THEN [STORES |-> Some([n \in {"memory"} |-> created.val]), INITIALIZED |-> TRUE,
                panicked |-> FALSE]
          ELSE [STORES |-> S, INITIALIZED |-> I, panicked |-> TRUE])
    ELSE [STORES |-> S, INITIALIZED |-> I, panicked |-> FALSE]

\* lib.rs with_stores_mut up to the call of f: the statics after ensure_stores;
\* f runs on STORES.val when STORES.some.
with_stores_mut(S, I, created) == ensure_stores(S, I, created)

\* get_or_create_store without its contains_key test: a new store every time.
get_or_create_store_always(stores, store_name, created) ==
    IF created.ok
    THEN [stores |-> Insert(stores, store_name, created.val), res |-> Ok(store_name)]
    ELSE [stores |-> stores, res |-> Err("Failed to create store: " \o created.err)]

\* lib.rs get_or_create_store: the map afterwards, and Ok when the store is
\* stores[store_name]; created is what Store::new() returns should it be called.
get_or_create_store(stores, store_name, created) ==
    IF store_name \notin DOMAIN stores
    THEN (IF created.ok
          THEN [stores |-> Insert(stores, store_name, created.val), res |-> Ok(store_name)]
          ELSE [stores |-> stores, res |-> Err("Failed to create store: " \o created.err)])
    ELSE [stores |-> stores, res |-> Ok(store_name)]

\* A lookup that hands out an empty store for a name it does not find.
get_or_default(stores, store_name) ==
    IF store_name \in DOMAIN stores THEN Some(stores[store_name]) ELSE Some({})

\* BTreeMap::get
get(stores, store_name) ==
    IF store_name \in DOMAIN stores THEN Some(stores[store_name]) ELSE None

NotFound(store_name) == "Store '" \o store_name \o "' not found"

\* load_*: the closure after load_from_reader
load_into(w, stores, store_name, loaded, label) ==
    IF ~loaded.res.ok
    THEN Outcome(Some([stores EXCEPT ![store_name] = loaded.store]), w.INITIALIZED,
                 "ERROR: Failed to parse " \o label \o " data: " \o loaded.res.err, "")
    ELSE Outcome(Some([stores EXCEPT ![store_name] = loaded.store]), w.INITIALIZED, "OK", "")

\* A closure that parses the payload before it registers the name.
load_closure_parse_first(w, got, store_name, data, format, label) ==
    IF ~ParseGraph(format, data).ok
    THEN Outcome(w.STORES, w.INITIALIZED,
                 "ERROR: Failed to parse " \o label \o " data: "
                     \o ParseGraph(format, data).err, "")
    ELSE IF ~got.res.ok
    THEN Outcome(Some(got.stores), w.INITIALIZED, "ERROR: " \o got.res.err, "")
    ELSE load_into(w, got.stores, store_name,
                   load_from_reader(got.stores[store_name], format, data), label)

\* load_*: the closure handed to with_stores_mut, after get_or_create_store
load_closure(w, got, store_name, data, format, label) ==
    IF ~got.res.ok THEN Outcome(Some(got.stores), w.INITIALIZED, "ERROR: " \o got.res.err, "")
    ELSE load_into(w, got.stores, store_name,
                   load_from_reader(got.stores[store_name], format, data), label)

\* load_*: after the store name was decoded
load_named(S, I, w, store_name, data, format, label, created) ==
    IF ~store_name.ok
    THEN Outcome(S, I, "ERROR: Invalid store name: " \o store_name.err, "")
    ELSE IF w.panicked THEN Trapped(w.STORES, w.INITIALIZED)
    ELSE IF ~w.STORES.some
    THEN Outcome(w.STORES, w.INITIALIZED, "ERROR: Failed to initialize stores", "")
    ELSE load_closure(w, get_or_create_store(w.STORES.val, store_name.val, created),
                      store_name.val, data, format, label)

\* The body shared by load_turtle, load_rdf_xml and load_ntriples; news holds
\* what Store::new() returns to ensure_stores and to get_or_create_store.
load_data(S, I, store_name_bytes, data, format, label, news) ==
    load_named(S, I, with_stores_mut(S, I, news[1]), FromUtf8(store_name_bytes), data,
               format, label, news[2])

load_turtle(S, I, store_name, turtle_data, news) ==
    load_data(S, I, store_name, turtle_data, "Turtle", "Turtle", news)

load_rdf_xml(S, I, store_name, rdf_xml_data, news) ==
    load_data(S, I, store_name, rdf_xml_data, "RdfXml", "RDF/XML", news)

load_ntriples(S, I, store_name, ntriples_data, news) ==
    load_data(S, I, store_name, ntriples_data, "NTriples", "N-Triples", news)

\* The solutions of a row-set as the JSON array lib.rs query builds.
query_rows(rows) ==
    JArray([i \in 1..Len(rows) |->
              JObject([var \in DOMAIN rows[i] |-> query_term_value(rows[i][var])])])

\* lib.rs query: the match on the engine's results
query_match(results) ==
    IF results.shape = "Solutions" THEN Ok(JsonText(query_rows(results.rows)))
    ELSE IF results.shape = "Boolean"
    THEN Ok(JsonText(JObject([boolean |-> JBool(results.b)])))
    ELSE Err("CONSTRUCT queries should use query_construct function")

\* lib.rs query_construct: the match on the engine's results
query_construct_match(results) ==
    IF results.shape = "Graph" THEN Ok(TurtleText(results.triples))
    ELSE IF results.shape = "Solutions" THEN Err("SELECT queries should use query function")
    ELSE Err("ASK queries should use query_ask function")

\* A match that answers a row-set as a boolean: whether it has a solution.
query_ask_match_coercing(results) ==
    IF results.shape = "Boolean" THEN Ok(IF results.b THEN "true" ELSE "false")
    ELSE IF results.shape = "Solutions"
    THEN Ok(IF results.rows # <<>> THEN "true" ELSE "false")
    ELSE Err("CONSTRUCT queries should use query_construct function")

\* lib.rs query_ask: the match on the engine's results
query_ask_match(results) ==
    IF results.shape = "Boolean" THEN Ok(IF results.b THEN "true" ELSE "false")
    ELSE IF results.shape = "Solutions" THEN Err("SELECT queries should use query function")
    ELSE Err("CONSTRUCT queries should use query_construct function")

\* The match of the entry point on the engine's results.
entry_match(entry, results) ==
    IF entry = "query" THEN query_match(results)
    ELSE IF entry = "query_construct" THEN query_construct_match(results)
    ELSE query_ask_match(results)

\* query*: the buffer for what the closure returned
query_returned(w, shape, out) ==
    IF ~out.ok THEN Outcome(w.STORES, w.INITIALIZED, "ERROR: " \o out.err, shape)
    ELSE Outcome(w.STORES, w.INITIALIZED, out.val, shape)

\* query*: after store.query
query_answered(w, results, entry) ==
    IF ~results.ok
    THEN Outcome(w.STORES, w.INITIALIZED,
                 "ERROR: SPARQL query execution failed: " \o results.err, "")
    ELSE query_returned(w, results.val.shape, entry_match(entry, results.val))

\* query*: the closure handed to with_stores_mut
query_closure(w, store_name, store, sparql, entry) ==
    IF ~store.some
    THEN Outcome(w.STORES, w.INITIALIZED, "ERROR: " \o NotFound(store_name), "")
    ELSE query_answered(w, EngineQuery(store.val, sparql), entry)

\* query*: after both arguments were decoded
query_named(S, I, w, store_name, sparql, entry) ==
    IF ~store_name.ok
    THEN Outcome(S, I, "ERROR: Invalid store name: " \o store_name.err, "")
    ELSE IF ~sparql.ok
    THEN Outcome(S, I, "ERROR: Invalid SPARQL query: " \o sparql.err, "")
    ELSE IF w.panicked THEN Trapped(w.STORES, w.INITIALIZED)
    ELSE IF ~w.STORES.some
    THEN Outcome(w.STORES, w.INITIALIZED, "ERROR: Failed to initialize stores", "")
    ELSE query_closure(w, store_name.val, get(w.STORES.val, store_name.val), sparql.val, entry)

\* The body shared by query, query_construct and query_ask; entry names whose
\* match on the results applies.
run_query(S, I, store_name_bytes, sparql_bytes, entry, created) ==
    query_named(S, I, with_stores_mut(S, I, created), FromUtf8(store_name_bytes),
                FromUtf8(sparql_bytes), entry)

query(S, I, store_name, sparql_query, created) ==
    run_query(S, I, store_name, sparql_query, "query", created)

query_construct(S, I, store_name, sparql_query, created) ==
    run_query(S, I, store_name, sparql_query, "query_construct", created)

query_ask(S, I, store_name, sparql_query, created) ==
    run_query(S, I, store_name, sparql_query, "query_ask", created)

\* clear_store and get_store_size: up to the store the closure found; found is
\* the outcome for a registered store
on_store(S, I, w, store_name, found) ==
    IF ~store_name.ok
    THEN Outcome(S, I, "ERROR: Invalid store name: " \o store_name.err, "")
    ELSE IF w.panicked THEN Trapped(w.STORES, w.INITIALIZED)
    ELSE IF ~w.STORES.some
    THEN Outcome(w.STORES, w.INITIALIZED, "ERROR: Failed to initialize stores", "")
    ELSE IF ~get(w.STORES.val, store_name.val).some
    THEN Outcome(w.STORES, w.INITIALIZED, "ERROR: " \o NotFound(store_name.val), "")
    ELSE found

\* A clear that drops the store with its triples.
clear_named_dropping(S, I, w, store_name) ==
    on_store(S, I, w, store_name,
             Outcome(Some([n \in DOMAIN w.STORES.val \ {store_name.val} |-> w.STORES.val[n]]),
                     w.INITIALIZED, "OK", ""))

\* clear_store: after the store name was decoded
clear_named(S, I, w, store_name) ==
    on_store(S, I, w, store_name,
             Outcome(Some([w.STORES.val EXCEPT ![store_name.val] = {}]), w.INITIALIZED,
                     "OK", ""))

\* lib.rs clear_store
clear_store(S, I, store_name_bytes, created) ==
    clear_named(S, I, with_stores_mut(S, I, created), FromUtf8(store_name_bytes))

names_listed(w, store_names) ==
    IF w.panicked THEN Trapped(w.STORES, w.INITIALIZED)
    ELSE IF ~w.STORES.some
    THEN Outcome(w.STORES, w.INITIALIZED, "ERROR: Failed to initialize stores", "")
    ELSE Outcome(w.STORES, w.INITIALIZED,
                 JsonText(JArray([i \in 1..Len(store_names) |-> JString(store_names[i])])), "")

stores_listed(w) ==
    names_listed(w, IF w.STORES.some THEN SeqOfSet(DOMAIN w.STORES.val) ELSE <<>>)

\* lib.rs list_stores: the keys of the BTreeMap, in their order
list_stores(S, I, created) == stores_listed(with_stores_mut(S, I, created))

size_named(S, I, w, store_name) ==
    on_store(S, I, w, store_name,
             Outcome(w.STORES, w.INITIALIZED,
                     ToDecimal(Cardinality(get(w.STORES.val, store_name.val).val)), ""))

\* lib.rs get_store_size
get_store_size(S, I, store_name_bytes, created) ==
    size_named(S, I, with_stores_mut(S, I, created), FromUtf8(store_name_bytes))

\* ----------------------------------------------------------------- the CLI

\* What lies at a path of the file system.
Absent == [kind |-> "absent"]

\* A directory holding an engine store with these triples.
StoreDir(triples) == [kind |-> "store", triples |-> triples]

\* A regular file with this content.
File(data) == [kind |-> "file", data |-> data]

\* A directory that is no store.
Dir == [kind |-> "dir"]

\* Path::exists
exists(disk, path) == path \in DOMAIN disk /\ disk[path].kind # "absent"

\* Store::open of an existing path: fails on anything that is not a store.
open(disk, path) ==
    IF disk[path].kind = "store" THEN Ok(disk[path].triples)
    ELSE Err("IO error: not an Oxigraph store")

\* What a CLI call touched: the paths it tested for existence, the paths it
\* handed to Store::open, the URLs it sent a request to.
NoEffects == [exists |-> {}, opened |-> {}, http |-> {}]

\* connect_to_store looking at the path before the scheme.
connect_to_store_path_first(disk, store_param) ==
    IF exists(disk, store_param)
    THEN [res |-> IF open(disk, store_param).ok
                  THEN Ok([kind |-> "LocalStore", store |-> open(disk, store_param).val])
                  ELSE Err("Failed to open store at: " \o store_param),
          fx |-> [NoEffects EXCEPT !.exists = {store_param}, !.opened = {store_param}]]
    ELSE IF StartsWith(store_param, "http://") \/ StartsWith(store_param, "https://")
    THEN [res |-> Ok([kind |-> "HttpEndpoint", url |-> store_param]),
          fx |-> [NoEffects EXCEPT !.exists = {store_param}]]
    ELSE [res |-> Err("Store path does not exist: " \o store_param),
          fx |-> [NoEffects EXCEPT !.exists = {store_param}]]

\* main.rs connect_to_store
connect_to_store(disk, store_param) ==
    IF StartsWith(store_param, "http://") \/ StartsWith(store_param, "https://")
    THEN [res |-> Ok([kind |-> "HttpEndpoint", url |-> store_param]), fx |-> NoEffects]
    ELSE IF ~exists(disk, store_param)
    THEN [res |-> Err("Store path does not exist: " \o store_param),
          fx |-> [NoEffects EXCEPT !.exists = {store_param}]]
    ELSE LET store == open(disk, store_param)
             fx == [NoEffects EXCEPT !.exists = {store_param}, !.opened = {store_param}]
         IN  IF store.ok
             THEN [res |-> Ok([kind |-> "LocalStore", store |-> store.val]), fx |-> fx]
             ELSE [res |-> Err("Failed to open store at: " \o store_param), fx |-> fx]

\* The rows as they are, none or some.
rows_always(json_array) == Ok(JArray(json_array))

\* if json_array.is_empty() { bail!(..) }  Ok(Value::Array(json_array))
rows_or_none(json_array) ==
    IF json_array = <<>> THEN Err("No records found for the given query")
    ELSE Ok(JArray(json_array))

\* main.rs format_results
format_results(results, prefixes, order) ==
    IF results.shape = "Solutions"
    THEN rows_or_none([i \in 1..Len(results.rows) |->
                         JObject([var \in DOMAIN results.rows[i] |->
                                    format_term_typed(results.rows[i][var], prefixes, order)])])
    ELSE Err("Only SELECT queries are supported")

\* The members of a binding object that are objects with a string "value".
kept_vars(binding_obj) ==
    {var \in DOMAIN binding_obj : AsStr(JGet(binding_obj[var], "value")).some}

\* The row convert_sparql_json_to_typox_format builds from one binding object.
convert_binding(binding_obj, prefixes, order) ==
    JObject([var \in kept_vars(binding_obj) |->
               format_http_term_typed(binding_obj[var].fields["value"].s,
                                      binding_obj[var].fields, prefixes, order)])

\* The rows for the elements of the bindings array that are objects.
convert_objects(objects, prefixes, order) ==
    rows_or_none([i \in 1..Len(objects) |->
                    convert_binding(objects[i].fields, prefixes, order)])

\* convert_sparql_json_to_typox_format on json.get("results").and_then(get("bindings"))
convert_bindings(bindings, prefixes, order) ==
    IF bindings.some /\ bindings.val.t = "Array"
    THEN convert_objects(SelectSeq(bindings.val.items, LAMBDA b : b.t = "Object"),
                         prefixes, order)
    ELSE Err("Invalid SPARQL JSON response format")

\* Option::and_then(|r| r.get(key))
and_then_get(o, key) == IF o.some THEN JGet(o.val, key) ELSE None

\* main.rs convert_sparql_json_to_typox_format
convert_sparql_json_to_typox_format(json, prefixes, order) ==
    convert_bindings(and_then_get(JGet(json, "results"), "bindings"), prefixes, order)

\* What the endpoint does with the one POST of execute_http_query.
Unreachable == [kind |-> "unreachable"]

Status(code) == [kind |-> "status", code |-> code]

\* A success status with a body: Some(json), or None when the body is no JSON.
Body(json) == [kind |-> "body", json |-> json]

\* main.rs execute_http_query
execute_http_query(endpoint_url, query_str, prefixes, order, reply) ==
    IF reply.kind = "unreachable"
    THEN Err("Failed to send HTTP request to: " \o endpoint_url)
    ELSE IF reply.kind = "status"
    THEN Err("HTTP request failed with status: " \o ToDecimal(reply.code)
                \o " for endpoint: " \o endpoint_url)
    ELSE IF ~reply.json.some
    THEN Err("Failed to parse JSON response from HTTP endpoint")
    ELSE convert_sparql_json_to_typox_format(reply.json.val, prefixes, order)

\* execute_query, the arm of a local store, on what store.query returned
local_results(query_results, query_str, prefixes, order) ==
    IF query_results.ok THEN format_results(query_results.val, prefixes, order)
    ELSE Err("Failed to execute query: " \o query_str)

\* execute_query after connect_to_store and extract_prefixes
execute_query_on(data_source, query_str, prefixes, order, reply) ==
    IF ~data_source.res.ok THEN [res |-> data_source.res, fx |-> data_source.fx]
    ELSE IF data_source.res.val.kind = "LocalStore"
    THEN [res |-> local_results(EngineQuery(data_source.res.val.store, query_str),
                                query_str, prefixes, order),
          fx |-> data_source.fx]
    ELSE [res |-> execute_http_query(data_source.res.val.url, query_str, prefixes, order,
                                     reply),
          fx |-> [data_source.fx EXCEPT !.http = {data_source.res.val.url}]]

\* main.rs execute_query; reply is the endpoint's answer should a request be
\* sent, order the iteration order of the prefix table.
execute_query(disk, store_param, query_str, reply, order) ==
    execute_query_on(connect_to_store(disk, store_param), query_str,
                     extract_prefixes(query_str), order, reply)

\* main.rs output_results: where the JSON went; writable says whether
\* std::fs::write succeeds.
output_results(results, output_file, writable) ==
    IF ~output_file.some THEN [res |-> Ok("printed"), stdout |-> Some(results), file |-> None]
    ELSE IF writable
    THEN [res |-> Ok("written"), stdout |-> None, file |-> Some(results)]
    ELSE [res |-> Err("Failed to write to file: " \o output_file.val),
          stdout |-> None, file |-> None]

\* main after output_results(..)?
query_written(results, written) ==
    [res |-> IF written.res.ok THEN results.res ELSE written.res,
     fx |-> results.fx, stdout |-> written.stdout, file |-> written.file]

\* main after execute_query(..)?
query_executed(results, output_file, writable) ==
    IF ~results.res.ok
    THEN [res |-> results.res, fx |-> results.fx, stdout |-> None, file |-> None]
    ELSE query_written(results, output_results(results.res.val, output_file, writable))

\* main.rs main, the query subcommand (and the legacy mode, which is the same):
\* execute_query(..)? and then output_results(..)?
main_query(disk, store_param, query_str, output_file, reply, order, writable) ==
    query_executed(execute_query(disk, store_param, query_str, reply, order),
                   output_file, writable)

\* --------------------------------------------------------- the bulk loader

\* Path::is_file
is_file(disk, path) == path \in DOMAIN disk /\ disk[path].kind = "file"

RECURSIVE FindLastFrom(_, _, _)
FindLastFrom(s, c, i) ==
    IF i = 0 THEN 0 ELSE IF CharAt(s, i) = c THEN i ELSE FindLastFrom(s, c, i - 1)

\* Path::extension of a path of one component: the text after the last dot,
\* None without a dot and for a name whose only dot comes first.
extension(path) ==
    LET dot == FindLastFrom(path, ".", Len(path))
    IN  IF dot <= 1 THEN None ELSE Some(DropFirst(path, dot))

RECURSIVE PatternValid(_)
\* Pattern::new: a "[" needs its "]".
PatternValid(p) ==
    IF p = "" THEN TRUE
    ELSE IF CharAt(p, 1) = "["
    THEN LET close == FindFrom(p, "]", 3)
         IN  close # 0 /\ PatternValid(DropFirst(p, close))
    ELSE PatternValid(DropFirst(p, 1))

RECURSIVE GlobMatch(_, _)
\* Pattern::matches on a name of one component: "*" any run of characters, "?"
\* any one, "[..]" one of the listed, "[!..]" one not listed.
GlobMatch(p, name) ==
    IF p = "" THEN name = ""
    ELSE IF CharAt(p, 1) = "*"
    THEN GlobMatch(DropFirst(p, 1), name) \/ (name # "" /\ GlobMatch(p, DropFirst(name, 1)))
    ELSE IF name = "" THEN FALSE
    ELSE IF CharAt(p, 1) = "?" THEN GlobMatch(DropFirst(p, 1), DropFirst(name, 1))
    ELSE IF CharAt(p, 1) = "["
    THEN LET close == FindFrom(p, "]", 3)
             negated == CharAt(p, 2) = "!"
             listed == SubSeq(p, IF negated THEN 3 ELSE 2, close - 1)
         IN  /\ Contains(listed, CharAt(name, 1)) # negated
             /\ GlobMatch(DropFirst(p, close), DropFirst(name, 1))
    ELSE CharAt(p, 1) = CharAt(name, 1) /\ GlobMatch(DropFirst(p, 1), DropFirst(name, 1))

\* glob::glob: an error for a malformed pattern, else the existing paths that
\* match, in alphabetical order.
glob(disk, pattern) ==
    IF ~PatternValid(pattern) THEN Err("Pattern syntax error")
    ELSE Ok(SeqOfSet({path \in DOMAIN disk : exists(disk, path) /\ GlobMatch(pattern, path)}))

\* The test without its look at the extension.
is_any_file(disk, path) == is_file(disk, path)

\* The test expand_glob_pattern applies to each path the glob yields.
is_turtle_file(disk, path) ==
    /\ is_file(disk, path)
    /\ extension(path).some
    /\ extension(path).val \in {"ttl", "turtle"}

\* Vec::sort of paths that differ from each other
sort(paths) == SeqOfSet({paths[i] : i \in 1..Len(paths)})

\* main.rs expand_glob_pattern
expand_glob_pattern(disk, pattern) ==
    LET entries == glob(disk, pattern)
        paths == SelectSeq(entries.val, LAMBDA path : is_turtle_file(disk, path))
    IN  IF ~Contains(pattern, "*") /\ ~Contains(pattern, "?") /\ ~Contains(pattern, "[")
        THEN (IF exists(disk, pattern) THEN Ok(<<pattern>>)
              ELSE Err("File does not exist: " \o pattern))
        ELSE IF ~entries.ok THEN Err("Invalid glob pattern: " \o pattern)
        ELSE IF paths = <<>> THEN Err("No turtle files found matching pattern: " \o pattern)
        ELSE Ok(sort(paths))

\* What load_turtle_files did, in the order it did it.
Removed(path) == [ev |-> "remove_dir_all", path |-> path]

\* Store::open returned a store holding these triples.
Opened(path, triples) == [ev |-> "open", path |-> path, triples |-> triples]

Expanded(pattern, ok) == [ev |-> "expand_glob_pattern", pattern |-> pattern, ok |-> ok]

ReadFile(path, ok) == [ev |-> "read", path |-> path, ok |-> ok]

\* store.load_from_reader was called with this base IRI for the parser; printed
\* is the count of the "Loaded {} triples" line, None when the call failed.
LoadCall(path, base, printed) ==
    [ev |-> "load_from_reader", path |-> path, base |-> base, ok |-> printed.some,
     printed |-> printed]

\* The two closing lines: the total, and store.len().
Summary(total_triples, len) == [ev |-> "summary", total |-> total_triples, len |-> len]

\* The run of load_turtle_files so far: the open store, total_triples, the log.
logged(run, events) == [run EXCEPT !.log = @ \o events]

\* fs::remove_dir_all of the store directory
remove_dir_all(disk, path) == [disk EXCEPT ![path] = Absent]

\* create_new without the removal.
remove_existing_kept(disk, store_path, create_new) == disk

\* load_turtle_files, "Handle store creation/cleanup"
remove_existing(disk, store_path, create_new) ==
    IF create_new /\ exists(disk, store_path) THEN remove_dir_all(disk, store_path)
    ELSE disk

\* Store::open as load_turtle_files calls it: a path that does not exist is
\* created as an empty store.
open_or_create(disk, store_path) ==
    IF exists(disk, store_path) THEN open(disk, store_path) ELSE Ok({})

\* fs::read
read(disk, path) ==
    IF is_file(disk, path) THEN Ok(disk[path].data) ELSE Err("Is a directory")

\* The count added to total_triples, without the subtraction.
new_triples_after(triples_before, triples_after) == triples_after

\* let new_triples = triples_after - triples_before
new_triples(triples_before, triples_after) == triples_after - triples_before

\* The body of the inner loop after load_from_reader returned; the call is made
\* on RdfFormat::Turtle and the reader alone, _base_iri_str is not used.
file_loaded(run, path, loaded) ==
    IF ~loaded.res.ok
    THEN [run |-> logged(run, <<ReadFile(path, TRUE), LoadCall(path, None, None)>>),
          res |-> Err("Failed to load turtle file: " \o path)]
    ELSE [run |-> [store |-> loaded.store,
                   total |-> run.total + new_triples(Cardinality(run.store),
                                                     Cardinality(loaded.store)),
                   log |-> run.log \o
                       <<ReadFile(path, TRUE),
                         LoadCall(path, None,
                                  Some(new_triples(Cardinality(run.store),
                                                   Cardinality(loaded.store))))>>],
          res |-> Ok("loaded")]

\* The body of the inner loop after fs::read returned.
file_read(run, path, file_content) ==
    IF ~file_content.ok
    THEN [run |-> logged(run, <<ReadFile(path, FALSE)>>),
          res |-> Err("Failed to read file: " \o path)]
    ELSE file_loaded(run, path, load_from_reader(run.store, "Turtle", file_content.val))

\* The body of the inner loop: one file.
load_file(run, disk, file_path) == file_read(run, file_path, read(disk, file_path))

RECURSIVE load_expanded_files(_, _, _)

\* The inner loop going on to the next file whatever the last one did.
next_file_skipping(done, disk, rest) == load_expanded_files(done.run, disk, rest)

\* The "?" of the inner loop: an error ends the function.
next_file(done, disk, rest) ==
    IF done.res.ok THEN load_expanded_files(done.run, disk, rest) ELSE done

\* for file_path in expanded_files
load_expanded_files(run, disk, expanded_files) ==
    IF expanded_files = <<>> THEN [run |-> run, res |-> Ok("loaded")]
    ELSE next_file(load_file(run, disk, Head(expanded_files)), disk, Tail(expanded_files))

RECURSIVE load_patterns(_, _, _)

\* The outer loop after the files of one pattern.
next_pattern(done, disk, rest) ==
    IF done.res.ok THEN load_patterns(done.run, disk, rest) ELSE done

\* An outer loop that resolves the next pattern before it loads the files of
\* this one.
pattern_expanded_eager(run, disk, file_pattern, expanded_files, rest) ==
    IF ~expanded_files.ok
    THEN [run |-> logged(run, <<Expanded(file_pattern, FALSE)>>),
          res |-> Err(expanded_files.err)]
    ELSE IF rest # <<>> /\ ~expand_glob_pattern(disk, Head(rest)).ok
    THEN [run |-> logged(run, <<Expanded(file_pattern, TRUE), Expanded(Head(rest), FALSE)>>),
          res |-> Err(expand_glob_pattern(disk, Head(rest)).err)]
    ELSE next_pattern(load_expanded_files(logged(run, <<Expanded(file_pattern, TRUE)>>),
                                          disk, expanded_files.val),
                      disk, rest)

\* The outer loop after expand_glob_pattern(file_pattern)?
pattern_expanded(run, disk, file_pattern, expanded_files, rest) ==
    IF ~expanded_files.ok
    THEN [run |-> logged(run, <<Expanded(file_pattern, FALSE)>>),
          res |-> Err(expanded_files.err)]
    ELSE next_pattern(load_expanded_files(logged(run, <<Expanded(file_pattern, TRUE)>>),
                                          disk, expanded_files.val),
                      disk, rest)

\* for file_pattern in files
load_patterns(run, disk, files) ==
    IF files = <<>> THEN [run |-> run, res |-> Ok("loaded")]
    ELSE pattern_expanded(run, disk, Head(files), expand_glob_pattern(disk, Head(files)),
                          Tail(files))

\* A load that leaves the path as it found it when it fails.
files_loaded_rolled_back(disk, store_path, done) ==
    [res |-> done.res,
     disk |-> IF done.res.ok THEN [disk EXCEPT ![store_path] = StoreDir(done.run.store)]
              ELSE disk,
     log |-> IF done.res.ok
             THEN done.run.log \o <<Summary(done.run.total, Cardinality(done.run.store))>>
             ELSE done.run.log]

\* load_turtle_files after its loops: the summary on success, and the
\* directory of the store as the run leaves it.
files_loaded(disk, store_path, done) ==
    [res |-> done.res,
     disk |-> [disk EXCEPT ![store_path] = StoreDir(done.run.store)],
     log |-> IF done.res.ok
             THEN done.run.log \o <<Summary(done.run.total, Cardinality(done.run.store))>>
             ELSE done.run.log]

\* load_turtle_files after Store::open
store_opened(disk, store_path, files, store, log) ==
    IF ~store.ok
    THEN [res |-> Err("Failed to open store at: " \o store_path), disk |-> disk, log |-> log]
    ELSE files_loaded(disk, store_path,
                      load_patterns([store |-> store.val, total |-> 0,
                                     log |-> log \o <<Opened(store_path, store.val)>>],
                                    disk, files))

\* load_turtle_files after the removal; removed is the disk it left.
store_removed(disk, removed, store_path, files) ==
    store_opened(removed, store_path, files, open_or_create(removed, store_path),
                 IF removed = disk THEN <<>> ELSE <<Removed(store_path)>>)

\* main.rs load_turtle_files: its Result, the disk it leaves and what it did.
load_turtle_files(disk, store_path, files, create_new, base_iri) ==
    store_removed(disk, remove_existing(disk, store_path, create_new), store_path, files)

\* ------------------------------------------------------------------ inputs

\* The names given to the plugin: "b" is only ever asked for, never loaded.
LoadNames == {"memory", "a"}

StoreNames == LoadNames \cup {"b"}

LoadNameBuffers == {Utf8(n) : n \in LoadNames} \cup {NotUtf8}

NameBuffers == {Utf8(n) : n \in StoreNames} \cup {NotUtf8}

\* Graph data handed to the plugin's load functions.
Payloads ==
    {Data("Turtle", {TA}), Data("NTriples", {TB}), Data("RdfXml", {TA, TB}),
     Data("garbage", {})}

QSelect == "PREFIX e: <http://e/>\nSELECT ?s ?o WHERE { ?s ?p ?o }"

QSelectNone == "SELECT ?s ?o WHERE { ?s ?p ?o FILTER(false) }"

QAsk == "ASK { ?s ?p ?o }"

QConstruct == "CONSTRUCT WHERE { ?s ?p ?o }"

QBad == "SELEKT ?s"

QueryTexts == {QSelect, QSelectNone, QAsk, QConstruct, QBad}

QueryBuffers == {Utf8(q) : q \in QueryTexts} \cup {NotUtf8}

\* The store references given to the CLI.
StoreParams ==
    {"db", "nodb", "notes.txt", "HTTP://h/sparql", "http://h/sparql", "https://h/sparql"}

LocalPaths == {"db", "nodb", "notes.txt"}

\* The file systems a CLI invocation starts on.
DiskConfigs ==
    {[path \in LocalPaths |->
        IF path = "db" THEN StoreDir(triples)
        ELSE IF path = "notes.txt" THEN File(Data("garbage", {}))
        ELSE Absent] : triples \in SUBSET Triples}

NoDisk == [path \in {} |-> Absent]

OutputFiles == {None, Some("out.json")}

BindingUri ==
    JObject([s |-> JObject([type |-> JString("uri"), value |-> JString("http://e/a")])])

BindingLiteral ==
    JObject([o |-> JObject([type |-> JString("literal"), value |-> JString("7"),
                            datatype |-> JString(XSD_INTEGER)])])

\* An element of a bindings array that is no object.
BindingOdd == JInt(42)

BindingPool == {BindingUri, BindingLiteral, BindingOdd}

BindingArrays == UNION {[1..n -> BindingPool] : n \in 0..MaxRows}

\* The bodies an endpoint answers with.
RemoteJson ==
    {JObject([head |-> JObject([vars |-> JArray(<<>>)]),
              results |-> JObject([bindings |-> JArray(b)])]) : b \in BindingArrays}
    \cup {JObject([head |-> JObject([vars |-> JArray(<<>>)]), boolean |-> JBool(TRUE)]),
          JObject([results |-> JObject([bindings |-> JString("none")])])}

Replies == {Unreachable, Status(500), Body(None)} \cup {Body(Some(j)) : j \in RemoteJson}

IsRemote(store_param) ==
    StartsWith(store_param, "http://") \/ StartsWith(store_param, "https://")

\* The characters of the generated lexical forms.
LexChars == {"1", "2", "-", ".", "x"}

Lexicals ==
    StringsUpTo(LexChars, MaxLexLen)
        \cup {"42", "+7", "007", "1.50", "1e2", "inf", "-INF", "NaN", "true", "false", "abc"}

Datatypes == IntegerFamily \cup FloatFamily \cup {XSD_BOOLEAN, XSD_STRING}

Iris ==
    {"http://e/Alice", "http://e/x/y", "http://www.w3.org/2001/XMLSchema#int",
     "http://other/z", "urn:a"}

\* Two declared namespaces, one a prefix of the other.
QOverlap == "prefix e: <http://e/>\n  PREFIX ex: <http://e/x/>\nSELECT ?s WHERE { ?s ?p ?o }"

\* A term of a solution, the text of the query, and the table execute_query
\* builds from that text.
ProjectInput(term, query_str) ==
    [term |-> term, query |-> query_str, prefixes |-> extract_prefixes(query_str)]

ProjectInputs ==
    {ProjectInput(Literal(v, d), QSelect) : v \in Lexicals, d \in Datatypes}
    \cup {ProjectInput(NamedNode(i), q) : i \in Iris, q \in {QSelect, QOverlap, QAsk}}
    \cup {ProjectInput(BlankNode("b0"), QSelect)}

\* A term as an endpoint writes it in application/sparql-results+json: no
\* datatype member on a plain string.
SparqlJsonTerm(term) ==
    IF term.kind = "NamedNode" THEN [type |-> JString("uri"), value |-> JString(term.iri)]
    ELSE IF term.kind = "BlankNode" THEN [type |-> JString("bnode"), value |-> JString(term.id)]
    ELSE IF term.datatype = XSD_STRING
    THEN [type |-> JString("literal"), value |-> JString(term.value)]
    ELSE [type |-> JString("literal"), value |-> JString(term.value),
          datatype |-> JString(term.datatype)]

\* The names a directory of data files may hold, and what each is when present.
DataFiles ==
    [a_ttl |-> "a.ttl", b_ttl |-> "b.ttl", c_turtle |-> "c.turtle", n_txt |-> "n.txt",
     readme |-> "README", d_ttl |-> "d.ttl"]

DataNames == {DataFiles[k] : k \in DOMAIN DataFiles}

DataEntry(path) ==
    IF path = "d.ttl" THEN Dir
    ELSE IF path = "b.ttl" THEN File(Data("Turtle", {TB}))
    ELSE IF path = "n.txt" THEN File(Data("garbage", {}))
    ELSE File(Data("Turtle", {TA}))

DataDisks ==
    {[path \in DataNames |-> IF path \in present THEN DataEntry(path) ELSE Absent] :
        present \in SUBSET DataNames}

Patterns ==
    {"a.ttl", "zz.ttl", "d.ttl", "n.txt", "*.ttl", "*", "?.ttl", "[ab].ttl", "[!a].ttl",
     "*.t*", "b.*", "[", "*.txt"}

\* --- the bulk loader's world

MaxPatterns == 2

\* The store path of typox load.
LoadStorePath == "db"

\* The data files next to it: c.turtle states what a.ttl states, e.ttl is no
\* Turtle, r.ttl has relative IRIs (no Turtle without a base IRI), d.ttl is a
\* directory.
LoadEntry(path) ==
    IF path = "a.ttl" THEN File(Data("Turtle", {TA}))
    ELSE IF path = "b.ttl" THEN File(Data("Turtle", {TB}))
    ELSE IF path = "c.turtle" THEN File(Data("Turtle", {TA}))
    ELSE IF path = "e.ttl" THEN File(Data("garbage", {}))
    ELSE IF path = "r.ttl" THEN File(Data("TurtleRelative", {TB}))
    ELSE IF path = "d.ttl" THEN Dir
    ELSE Absent

LoadDataNames == {"a.ttl", "b.ttl", "c.turtle", "d.ttl", "e.ttl", "r.ttl"}

\* Which of the data files are there.
LoadPresent ==
    {{"a.ttl", "b.ttl", "c.turtle", "d.ttl"}, LoadDataNames, {"b.ttl", "r.ttl"}, {}}

\* What is at the store path before the call.
LoadStores == {Absent} \cup {StoreDir(triples) : triples \in SUBSET Triples}

LoadDisks ==
    {[path \in LoadDataNames \cup {LoadStorePath} |->
        IF path = LoadStorePath THEN store
        ELSE IF path \in present THEN LoadEntry(path) ELSE Absent] :
        store \in LoadStores, present \in LoadPresent}

LoadPatterns ==
    {"a.ttl", "b.ttl", "c.turtle", "*.ttl", "[ab].ttl", "?.turtle", "zz.ttl", "d.ttl",
     "*.txt", "r.ttl"}

\* The --files arguments: clap asks for at least one.
FileLists == UNION {[1..n -> LoadPatterns] : n \in 1..MaxPatterns}

BaseIris == {None, Some("http://base/")}

\* --- the query texts handed to extract_prefixes

MaxLines == 2

\* Lines of a query: declarations in either case, one that overrides a common
\* prefix, two declarations on one line, a declaration followed by the query,
\* malformed ones, the empty prefix, and a line that declares nothing.
PrefixLines ==
    {"PREFIX ex: <http://e/>",
     "prefix ex: <http://x/>",
     "  Prefix rdf:<http://r/>  ",
     "PREFIX a: <http://a/> PREFIX b: <http://b/>",
     "PREFIX ex: <http://e/> SELECT ?s WHERE { ?s ?p ?o }",
     "PREFIX ex <http://e/>",
     "PREFIX ex: http://e/",
     "PREFIX nocolon",
     "PREFIX : <http://d/>",
     "SELECT ?s WHERE { ?s ?p ?o }"}

PrefixTexts ==
    {""} \cup {JoinWith(lines, "\n") : lines \in UNION {[1..n -> PrefixLines] : n \in 1..MaxLines}}

\* What Store::new() may return: an empty store, or the engine's error.
NewStores == {Ok({}), Err("storage error")}

\* ------------------------------------------------------------------- state

VARIABLES
    frontend,       \* "plugin": a loaded plugin instance; "cli": an invocation of the CLI
    STORES,         \* lib.rs static mut STORES: Option<BTreeMap<String, Store>>
    INITIALIZED,    \* lib.rs static INITIALIZED: AtomicBool
    disk,           \* the file system the CLI runs on
    call,           \* the last call made: its arguments and what it returned
    input,          \* the arguments drawn for a pure function
    output          \* what the pure function returned

vars == <<frontend, STORES, INITIALIZED, disk, call, input, output>>

NoCall == [fe |-> "none"]

NotRun == [by |-> "none"]

PluginCall(op, name, arg, out) ==
    [fe |-> "plugin", op |-> op, name |-> name, arg |-> arg, ret |-> out.ret,
     shape |-> out.shape, trap |-> out.trap]

\* A plugin function ran: the statics and the buffer it returned.
Returned(op, name, arg, out) ==
    /\ frontend = "plugin"
    /\ STORES' = out.STORES
    /\ INITIALIZED' = out.INITIALIZED
    /\ call' = PluginCall(op, name, arg, out)
    /\ UNCHANGED <<frontend, disk, input, output>>

NoArg == "none"

LoadTurtle ==
    \E name \in LoadNameBuffers, data \in Payloads, news \in NewStores \X NewStores :
        Returned("load_turtle", name, data,
                 load_turtle(STORES, INITIALIZED, name, data, news))

LoadRdfXml ==
    \E name \in LoadNameBuffers, data \in Payloads, news \in NewStores \X NewStores :
        Returned("load_rdf_xml", name, data,
                 load_rdf_xml(STORES, INITIALIZED, name, data, news))

LoadNTriples ==
    \E name \in LoadNameBuffers, data \in Payloads, news \in NewStores \X NewStores :
        Returned("load_ntriples", name, data,
                 load_ntriples(STORES, INITIALIZED, name, data, news))

Query ==
    \E name \in NameBuffers, sparql \in QueryBuffers, created \in NewStores :
        Returned("query", name, sparql, query(STORES, INITIALIZED, name, sparql, created))

QueryConstruct ==
    \E name \in NameBuffers, sparql \in QueryBuffers, created \in NewStores :
        Returned("query_construct", name, sparql,
                 query_construct(STORES, INITIALIZED, name, sparql, created))

QueryAsk ==
    \E name \in NameBuffers, sparql \in QueryBuffers, created \in NewStores :
        Returned("query_ask", name, sparql,
                 query_ask(STORES, INITIALIZED, name, sparql, created))

ClearStore ==
    \E name \in NameBuffers, created \in NewStores :
        Returned("clear_store", name, NoArg, clear_store(STORES, INITIALIZED, name, created))

ListStores ==
    \E created \in NewStores :
        Returned("list_stores", NoArg, NoArg, list_stores(STORES, INITIALIZED, created))

GetStoreSize ==
    \E name \in NameBuffers, created \in NewStores :
        Returned("get_store_size", name, NoArg,
                 get_store_size(STORES, INITIALIZED, name, created))

\* What an invocation of typox query did: its arguments, the endpoint's answer
\* to a request, the Result of main, the paths and URLs it touched, what it
\* printed and what it wrote.
CliCall(store_param, query_str, output_file, reply, done) ==
    [fe |-> "cli", op |-> "query", store_param |-> store_param, query |-> query_str,
     output_file |-> output_file, reply |-> reply, res |-> done.res, fx |-> done.fx,
     stdout |-> done.stdout, file |-> done.file]

\* typox query: one invocation of the CLI, which ends with it.
CliQuery ==
    /\ frontend = "cli"
    /\ call = NoCall
    /\ \E store_param \in StoreParams, query_str \in QueryTexts, output_file \in OutputFiles :
        \E reply \in (IF IsRemote(store_param) THEN Replies ELSE {Unreachable}),
           order \in IterationOrders(extract_prefixes(query_str)),
           writable \in (IF output_file.some THEN BOOLEAN ELSE {TRUE}) :
            call' = CliCall(store_param, query_str, output_file, reply,
                            main_query(disk, store_param, query_str, output_file, reply,
                                       order, writable))
    /\ UNCHANGED <<frontend, STORES, INITIALIZED, disk, input, output>>

Init ==
    /\ frontend \in {"plugin", "cli"}
    /\ STORES = None
    /\ INITIALIZED = FALSE
    /\ disk \in (IF frontend = "cli" THEN DiskConfigs ELSE {NoDisk})
    /\ call = NoCall
    /\ input = NoArg
    /\ output = NotRun

Next ==
    \/ LoadTurtle
    \/ LoadRdfXml
    \/ LoadNTriples
    \/ Query
    \/ QueryConstruct
    \/ QueryAsk
    \/ ClearStore
    \/ ListStores
    \/ GetStoreSize
    \/ CliQuery

\* The two front ends: a plugin instance serving serialized calls, or one
\* invocation of the CLI's query command.
Spec == Init /\ [][Next]_vars

\* format_term_typed applied to the drawn term, the table built from the drawn query.
ProjectLocal ==
    /\ frontend = "none"
    /\ "term" \in DOMAIN input
    /\ output = NotRun
    /\ \E order \in IterationOrders(input.prefixes) :
        output' = [by |-> "format_term_typed",
                   value |-> format_term_typed(input.term, input.prefixes, order)]
    /\ UNCHANGED <<frontend, STORES, INITIALIZED, disk, call, input>>

\* format_http_term_typed applied to the drawn term as an endpoint sends it.
ProjectRemote ==
    /\ frontend = "none"
    /\ "term" \in DOMAIN input
    /\ output = NotRun
    /\ \E order \in IterationOrders(input.prefixes) :
        output' = [by |-> "format_http_term_typed",
                   value |-> format_http_term_typed(SparqlJsonTerm(input.term).value.s,
                                                    SparqlJsonTerm(input.term),
                                                    input.prefixes, order)]
    /\ UNCHANGED <<frontend, STORES, INITIALIZED, disk, call, input>>

\* The plugin's query projecting the drawn term of a solution.
ProjectPlugin ==
    /\ frontend = "none"
    /\ "term" \in DOMAIN input
    /\ output = NotRun
    /\ output' = [by |-> "query", value |-> query_term_value(input.term)]
    /\ UNCHANGED <<frontend, STORES, INITIALIZED, disk, call, input>>

InitProject ==
    /\ frontend = "none"
    /\ STORES = None
    /\ INITIALIZED = FALSE
    /\ disk = NoDisk
    /\ call = NoCall
    /\ input \in ProjectInputs
    /\ output = NotRun

NextProject == ProjectLocal \/ ProjectRemote \/ ProjectPlugin

\* The three term projectors as pure functions of a drawn term and query.
SpecProject == InitProject /\ [][NextProject]_vars

\* expand_glob_pattern applied to the drawn pattern on the drawn directory.
ExpandGlobPattern ==
    /\ frontend = "none"
    /\ "pattern" \in DOMAIN input
    /\ output = NotRun
    /\ output' = [by |-> "expand_glob_pattern",
                  res |-> expand_glob_pattern(disk, input.pattern)]
    /\ UNCHANGED <<frontend, STORES, INITIALIZED, disk, call, input>>

InitGlob ==
    /\ frontend = "none"
    /\ STORES = None
    /\ INITIALIZED = FALSE
    /\ disk \in DataDisks
    /\ call = NoCall
    /\ input \in {[pattern |-> p] : p \in Patterns}
    /\ output = NotRun

NextGlob == ExpandGlobPattern

\* expand_glob_pattern as a pure function of a drawn pattern and directory.
SpecGlob == InitGlob /\ [][NextGlob]_vars

\* What an invocation of typox load did: its arguments, the disk it started
\* on, the Result of load_turtle_files and the log of what it did.
LoadRun(before, store_path, files, create_new, base_iri, done) ==
    [fe |-> "cli", op |-> "load", store_path |-> store_path, files |-> files,
     create_new |-> create_new, base_iri |-> base_iri, before |-> before,
     res |-> done.res, log |-> done.log]

\* The disk and the call after load_turtle_files returned done.
LoadDone(store_path, files, create_new, base_iri, done) ==
    /\ disk' = done.disk
    /\ call' = LoadRun(disk, store_path, files, create_new, base_iri, done)

\* typox load: one invocation of the CLI, which ends with it.
LoadTurtleFiles ==
    /\ frontend = "load"
    /\ call = NoCall
    /\ \E files \in FileLists, create_new \in BOOLEAN, base_iri \in BaseIris :
        LoadDone(LoadStorePath, files, create_new, base_iri,
                 load_turtle_files(disk, LoadStorePath, files, create_new, base_iri))
    /\ UNCHANGED <<frontend, STORES, INITIALIZED, input, output>>

InitLoad ==
    /\ frontend = "load"
    /\ STORES = None
    /\ INITIALIZED = FALSE
    /\ disk \in LoadDisks
    /\ call = NoCall
    /\ input = NoArg
    /\ output = NotRun

NextLoad == LoadTurtleFiles

\* One invocation of the CLI's load command on a drawn disk.
SpecLoad == InitLoad /\ [][NextLoad]_vars

\* extract_prefixes applied to the drawn query text.
ExtractPrefixes ==
    /\ frontend = "none"
    /\ "text" \in DOMAIN input
    /\ output = NotRun
    /\ output' = [by |-> "extract_prefixes", table |-> extract_prefixes(input.text)]
    /\ UNCHANGED <<frontend, STORES, INITIALIZED, disk, call, input>>

InitPrefix ==
    /\ frontend = "none"
    /\ STORES = None
    /\ INITIALIZED = FALSE
    /\ disk = NoDisk
    /\ call = NoCall
    /\ input \in {[text |-> q] : q \in PrefixTexts}
    /\ output = NotRun

NextPrefix == ExtractPrefixes

\* extract_prefixes as a pure function of a drawn query text.
SpecPrefix == InitPrefix /\ [][NextPrefix]_vars

\* ------------------------------------------------------------------ claims

LoadOps == {"load_turtle", "load_rdf_xml", "load_ntriples"}

ReadOps == {"query", "query_construct", "query_ask", "clear_store", "get_store_size"}

\* The name n is registered in the registry S.
Registered(S, n) == S.some /\ n \in DOMAIN S.val

\* The step is a call of a plugin function in ops that decoded its store name
\* and did not trap.
PluginStep(ops) ==
    /\ call'.fe = "plugin"
    /\ call'.op \in ops
    /\ call'.op # "list_stores"
    /\ ~call'.trap
    /\ call'.name.utf8

\* A load names store n: what it loaded is there afterwards together with what
\* the store held, a new store holds nothing else, and no other store changed.
C1_LoadStep(n) ==
    /\ Registered(STORES, n) =>
        /\ Registered(STORES', n)
        /\ STORES.val[n] \subseteq STORES'.val[n]
        /\ call'.ret = "OK" => STORES'.val[n] = STORES.val[n] \cup call'.arg.triples
        /\ call'.ret # "OK" => STORES'.val[n] = STORES.val[n]
    /\ ~Registered(STORES, n) =>
        /\ Registered(STORES', n) \/ StartsWith(call'.ret, "ERROR: Failed to create store")
        /\ Registered(STORES', n) =>
              STORES'.val[n] = (IF call'.ret = "OK" THEN call'.arg.triples ELSE {})
    /\ STORES.some => \A m \in DOMAIN STORES.val \ {n} :
                          m \in DOMAIN STORES'.val /\ STORES'.val[m] = STORES.val[m]

\* A query or a get_store_size on the registered store n sees all it holds.
C1_ReadStep(n) ==
    Registered(STORES, n) =>
        /\ STORES' = STORES
        /\ call'.op = "get_store_size" => call'.ret = ToDecimal(Cardinality(STORES.val[n]))
        /\ (call'.op = "query" /\ call'.arg = Utf8(QSelect)) =>
              (call'.ret = "[]" <=> STORES.val[n] = {})

C1_Step ==
    /\ PluginStep(LoadOps) => C1_LoadStep(call'.name.text)
    /\ PluginStep({"query", "get_store_size"}) => C1_ReadStep(call'.name.text)

\* C1: a load on a registered name adds to the store that name already has, so
\* every triple an earlier load put there is still there and is seen by a later
\* query or get_store_size; a load on an unregistered name registers a new store
\* that holds only what this load put in it; no load touches another store.
C1_LoadIntoExistingStore == [][C1_Step]_vars

\* Store a was loaded twice, by different calls, and holds both triples.
C1_LoadedTwice ==
    /\ call.fe = "plugin"
    /\ call.op = "load_turtle"
    /\ call.name = Utf8("a")
    /\ call.ret = "OK"
    /\ STORES.some
    /\ "a" \in DOMAIN STORES.val
    /\ STORES.val["a"] = {TA, TB}

C2_Step ==
    LET n == call'.name.text
    IN  (PluginStep(ReadOps) /\ ~Registered(STORES, n) /\ n # "memory") =>
            /\ StartsWith(call'.ret, "ERROR: ")
            /\ (call'.op \in {"clear_store", "get_store_size"} \/ call'.arg.utf8) =>
                  call'.ret = "ERROR: Store '" \o n \o "' not found"
            /\ ~Registered(STORES', n)
            /\ \/ STORES' = STORES
               \/ ~STORES.some /\ STORES' = Some([m \in {"memory"} |-> {}])

\* C2: query, query_construct, query_ask, clear_store and get_store_size on a
\* name that is not registered return "ERROR: Store '<name>' not found" and
\* leave the registry as it was, but for the default store the first call makes.
C2_ReadOnlyNeverCreates == [][C2_Step]_vars

\* get_store_size was asked for b in a registry that holds other stores.
C2_UnknownStoreAsked ==
    /\ call.fe = "plugin"
    /\ call.op = "get_store_size"
    /\ call.name = Utf8("b")
    /\ call.ret = "ERROR: Store 'b' not found"
    /\ STORES.some
    /\ DOMAIN STORES.val = {"memory", "a"}
    /\ STORES.val["a"] # {}

C3_Inv ==
    /\ INITIALIZED <=> STORES.some
    /\ STORES.some => "memory" \in DOMAIN STORES.val

C3_Step ==
    frontend = "plugin" =>
        \* once the map exists it stays, with every name; a store loses triples
        \* only to a clear_store that names it
        /\ STORES.some =>
            /\ STORES'.some
            /\ \A n \in DOMAIN STORES.val :
                /\ n \in DOMAIN STORES'.val
                /\ \/ STORES.val[n] \subseteq STORES'.val[n]
                   \/ call'.op = "clear_store" /\ call'.name = Utf8(n) /\ call'.ret = "OK"
        \* the call that makes the map makes it with the default store alone,
        \* and only a load goes on to add to it
        /\ (~STORES.some /\ STORES'.some) =>
            /\ \A n \in DOMAIN STORES'.val \ {"memory"} :
                  call'.op \in LoadOps /\ call'.name = Utf8(n)
            /\ STORES'.val["memory"] # {} =>
                  call'.op \in LoadOps /\ call'.name = Utf8("memory")
        \* a call leaves no map behind only when it stopped before the registry
        \* or when creating the default store failed
        /\ (~STORES.some /\ ~STORES'.some) =>
              call'.trap \/ StartsWith(call'.ret, "ERROR: Invalid ")

\* C3: the map is made once, by the first call that reaches the registry, with
\* the default store "memory" alone; from then on "memory" is registered,
\* INITIALIZED is true exactly when the map exists, and no call makes the map
\* anew: every registered name stays and no store is emptied by initialization.
C3_InitializedOnce == [](C3_Inv) /\ [][C3_Step]_vars

\* Calls went on after both stores were loaded, and all of it is still there.
C3_LaterCallKeepsAll ==
    /\ call.fe = "plugin"
    /\ call.op = "list_stores"
    /\ INITIALIZED
    /\ STORES = Some([n \in {"memory", "a"} |-> IF n = "a" THEN {TA} ELSE {TA, TB}])

\* What the engine answers the CLI call on its local store: None when the call
\* opened no store.
CliEngineAnswer ==
    IF ~(StartsWith(call.store_param, "http://") \/ StartsWith(call.store_param, "https://"))
          /\ exists(disk, call.store_param) /\ open(disk, call.store_param).ok
    THEN Some(EngineQuery(open(disk, call.store_param).val, call.query))
    ELSE None

\* The shape of that answer, "" when there is none or it is an error.
CliShape ==
    IF CliEngineAnswer.some /\ CliEngineAnswer.val.ok THEN CliEngineAnswer.val.val.shape
    ELSE ""

\* The CLI call failed, printed nothing and wrote nothing.
CliFailed == ~call.res.ok /\ call.stdout = None /\ call.file = None

\* C4: the row-set entry point never returns a success payload for a result
\* that is a Boolean or a Graph: the plugin's query returns an "ERROR: " buffer,
\* the CLI fails without output.
C4_WrongShapeRejected ==
    /\ (call.fe = "plugin" /\ call.op = "query" /\ call.shape \in {"Boolean", "Graph"}) =>
          StartsWith(call.ret, "ERROR: ")
    /\ (call.fe = "cli" /\ CliShape \in {"Boolean", "Graph"}) => CliFailed

\* The half of C4 that the code keeps: a Graph through the plugin's query, and
\* either shape through the CLI.
C4_GraphAndCliRejected ==
    /\ (call.fe = "plugin" /\ call.op = "query" /\ call.shape = "Graph") =>
          call.ret = "ERROR: CONSTRUCT queries should use query_construct function"
    /\ (call.fe = "cli" /\ CliShape \in {"Boolean", "Graph"}) =>
          CliFailed /\ call.res.err = "Only SELECT queries are supported"

\* The format a load function hands to the parser.
FormatOf(op) ==
    IF op = "load_turtle" THEN "Turtle" ELSE IF op = "load_rdf_xml" THEN "RdfXml"
    ELSE "NTriples"

\* The shape an entry point of the plugin accepts.
ShapeOf(op) ==
    IF op = "query" THEN "Solutions" ELSE IF op = "query_construct" THEN "Graph"
    ELSE "Boolean"

QueryOps == {"query", "query_construct", "query_ask"}

\* The call of this step met one of the failures a caller can see: an argument
\* that is no UTF-8, an unknown store, a payload that does not parse, a query
\* the engine rejects, a result of another shape than the entry point's.
C5_Failed ==
    /\ call'.op # "list_stores"
    /\ \/ ~call'.name.utf8
       \/ call'.op \in QueryOps /\ ~call'.arg.utf8
       \/ call'.op \in ReadOps /\ call'.name.text # "memory"
             /\ ~Registered(STORES, call'.name.text)
       \/ call'.op \in LoadOps /\ ~ParseGraph(FormatOf(call'.op), call'.arg).ok
       \/ call'.op \in QueryOps /\ call'.arg.utf8 /\ QueryKeyword(Lines(call'.arg.text)) = ""
       \/ call'.op \in QueryOps /\ call'.shape \notin {"", ShapeOf(call'.op)}

\* The buffer of the call of this step has the form of its function's success.
C5_SuccessPayload ==
    IF call'.op \in LoadOps \/ call'.op = "clear_store" THEN call'.ret = "OK"
    ELSE IF call'.op \in {"query", "list_stores"}
    THEN StartsWith(call'.ret, "[") /\ EndsWith(call'.ret, "]")
    ELSE IF call'.op = "query_ask" THEN call'.ret \in {"true", "false"}
    ELSE IF call'.op = "get_store_size" THEN call'.ret # "" /\ AllDigits(call'.ret)
    ELSE ~StartsWith(call'.ret, "ERROR: ")

C5_Step ==
    call'.fe = "plugin" =>
        /\ ~call'.trap
        /\ C5_Failed => StartsWith(call'.ret, "ERROR: ")
        /\ ~C5_Failed =>
              \/ C5_SuccessPayload
              \/ call'.op \in LoadOps /\ StartsWith(call'.ret, "ERROR: Failed to create store")

\* C5: no call of the plugin ends in a trap; a call that fails returns a buffer
\* that begins with "ERROR: ", and a call that succeeds returns the payload of
\* its function, which is no error payload.
C5_ErrorsAreErrorBuffers == [][C5_Step]_vars

\* No call of the plugin ends in a trap instead of a buffer.
NoCallTraps == call.fe = "plugin" => ~call.trap

\* C6: a store reference that begins with http:// or https:// is sent to as an
\* endpoint and no path is tested or opened for it; any other reference is a
\* path, no request is sent for it, and when nothing is at the path the call
\* fails having opened nothing.
C6_DispatchByScheme ==
    call.fe = "cli" =>
        IF StartsWith(call.store_param, "http://") \/ StartsWith(call.store_param, "https://")
        THEN call.fx = [exists |-> {}, opened |-> {}, http |-> {call.store_param}]
        ELSE /\ call.fx.http = {}
             /\ call.fx.exists = {call.store_param}
             /\ call.fx.opened = IF exists(disk, call.store_param) THEN {call.store_param}
                                 ELSE {}
             /\ ~exists(disk, call.store_param) =>
                   /\ CliFailed
                   /\ call.res.err = "Store path does not exist: " \o call.store_param

\* A query was answered by the endpoint while a store sits on the local disk.
C6_RemoteAnswered ==
    /\ call.fe = "cli"
    /\ call.store_param = "https://h/sparql"
    /\ call.res.ok
    /\ call.fx.http = {"https://h/sparql"}
    /\ exists(disk, "db")

\* The bindings array of the body the endpoint answered with, None without one.
ReplyBindings ==
    IF call.reply.kind = "body" /\ call.reply.json.some
    THEN and_then_get(JGet(call.reply.json.val, "results"), "bindings")
    ELSE None

\* The CLI call asked a row-set query that has no solution.
CliZeroSolutions ==
    \/ CliShape = "Solutions" /\ CliEngineAnswer.val.val.rows = <<>>
    \/ /\ StartsWith(call.store_param, "http://") \/ StartsWith(call.store_param, "https://")
       /\ ReplyBindings = Some(JArray(<<>>))

\* The plugin's query asked a registered store a row-set query without solution.
PluginZeroSolutions ==
    /\ call.op = "query"
    /\ ~call.trap
    /\ call.name.utf8
    /\ call.arg.utf8
    /\ Registered(STORES, call.name.text)
    /\ EngineQuery(STORES.val[call.name.text], call.arg.text)
          = Ok([shape |-> "Solutions", rows |-> <<>>])

\* C7: a row-set query without solution fails in the CLI, on a local store and
\* on an endpoint, and nothing is printed or written; the plugin's query
\* returns the empty array.
C7_ZeroSolutions ==
    /\ (call.fe = "cli" /\ CliZeroSolutions) =>
          CliFailed /\ call.res.err = "No records found for the given query"
    /\ (call.fe = "plugin" /\ PluginZeroSolutions) => call.ret = "[]"

\* An endpoint answered with no binding, and an output file had been asked for.
C7_RemoteEmptyToFile ==
    /\ call.fe = "cli"
    /\ call.store_param = "http://h/sparql"
    /\ ReplyBindings = Some(JArray(<<>>))
    /\ call.output_file.some
    /\ ~call.res.ok
    /\ call.file = None

\* The value C8 gives a literal of a numeric datatype.
C8_Expected(value, datatype) ==
    IF datatype \in IntegerFamily
    THEN int_or_string(ParseI64(value), value)
    ELSE or_else(float_number(ParseF64(value)), JString(value))

\* A literal of a numeric datatype was projected.
NumericProjected ==
    /\ output # NotRun
    /\ input.term.kind = "Literal"
    /\ input.term.datatype \in IntegerFamily \cup FloatFamily

\* C8: each of the three projectors gives a literal of the integer family the
\* number its lexical value parses to as i64, a literal of the floating family
\* the number it parses to as a finite f64, and either the lexical value itself,
\* as a string, when it does not parse so.
C8_NumericProjection ==
    NumericProjected => output.value = C8_Expected(input.term.value, input.term.datatype)

\* The entries of the table whose namespace the IRI starts with.
MatchingPrefixes(iri, table) == {k \in DOMAIN table : StartsWith(iri, table[k])}

\* The projection of iri is right by C9 for the table.
Compacted(value, iri, table) ==
    IF MatchingPrefixes(iri, table) = {} THEN value = JString(iri)
    ELSE \E k \in MatchingPrefixes(iri, table) :
            value = JString(k \o ":" \o DropFirst(iri, Len(table[k])))

\* The prefixes the text of the query declares, without the common ones.
DeclaredPrefixes(query_str) == extract_prefixes_from(<<>>, Lines(query_str))

\* C9: each of the three projectors gives a NamedNode the short name and the
\* rest of the IRI for some entry of the query's prefix table whose namespace
\* the IRI starts with, and the IRI itself exactly when there is no such entry;
\* for the plugin's query the table is the one its query text gives, with the
\* common prefixes or without them.
C9_PrefixCompaction ==
    (output # NotRun /\ input.term.kind = "NamedNode") =>
        \/ Compacted(output.value, input.term.iri, extract_prefixes(input.query))
        \/ /\ output.by = "query"
           /\ Compacted(output.value, input.term.iri, DeclaredPrefixes(input.query))

\* What C9 says, of the two projectors of the CLI only.
CliPrefixCompaction ==
    (output # NotRun /\ output.by # "query" /\ input.term.kind = "NamedNode") =>
        Compacted(output.value, input.term.iri, extract_prefixes(input.query))

HasGlobChars(pattern) ==
    Contains(pattern, "*") \/ Contains(pattern, "?") \/ Contains(pattern, "[")

\* The regular files of a recognized extension that the drawn pattern matches;
\* a pattern the glob library does not accept matches nothing.
MatchedTurtleFiles ==
    {path \in DOMAIN disk :
        /\ disk[path].kind = "file"
        /\ PatternValid(input.pattern)
        /\ GlobMatch(input.pattern, path)
        /\ extension(path) \in {Some("ttl"), Some("turtle")}}

Ascending(paths) == \A i, j \in 1..Len(paths) : i < j => StrLess(paths[i], paths[j])

\* A pattern without glob characters is a path: itself if it exists.
LiteralResolved ==
    ~HasGlobChars(input.pattern) =>
        output.res = IF exists(disk, input.pattern) THEN Ok(<<input.pattern>>)
                     ELSE Err("File does not exist: " \o input.pattern)

\* A pattern with glob characters gives exactly the files it matches, ascending.
GlobExpanded ==
    (HasGlobChars(input.pattern) /\ MatchedTurtleFiles # {}) =>
        /\ output.res.ok
        /\ {output.res.val[i] : i \in 1..Len(output.res.val)} = MatchedTurtleFiles
        /\ Len(output.res.val) = Cardinality(MatchedTurtleFiles)
        /\ Ascending(output.res.val)

\* C10, as stated: a pattern without glob characters is a path, an error when
\* nothing is there; a pattern with glob characters gives the regular .ttl and
\* .turtle files it matches in ascending order, and the no-files-matched error
\* when there is none.
C10_AsStated ==
    output # NotRun =>
        /\ LiteralResolved
        /\ GlobExpanded
        /\ (HasGlobChars(input.pattern) /\ MatchedTurtleFiles = {}) =>
              output.res = Err("No turtle files found matching pattern: " \o input.pattern)

\* C10, amended: as stated, but a pattern the glob library does not accept
\* fails with an invalid-pattern error, not with the no-files-matched one.
C10_PatternResolution ==
    output # NotRun =>
        /\ LiteralResolved
        /\ GlobExpanded
        /\ (HasGlobChars(input.pattern) /\ MatchedTurtleFiles = {}) =>
              output.res = IF PatternValid(input.pattern)
                           THEN Err("No turtle files found matching pattern: "
                                       \o input.pattern)
                           ELSE Err("Invalid glob pattern: " \o input.pattern)

\* "*" was expanded in a directory that holds more than the turtle files.
C10_StarExpanded ==
    /\ output # NotRun
    /\ input.pattern = "*"
    /\ output.res = Ok(<<"a.ttl", "b.ttl", "c.turtle">>)
    /\ disk["d.ttl"].kind = "dir"
    /\ disk["n.txt"].kind = "file"

\* An invocation of typox load has ended.
LoadEnded == call.fe = "cli" /\ call.op = "load"

\* The calls of load_from_reader the invocation made, in order.
LoadCalls == SelectSeq(call.log, LAMBDA e : e.ev = "load_from_reader")

\* The triples of the store when the invocation opened it.
OpenedTriples == SelectSeq(call.log, LAMBDA e : e.ev = "open")[1].triples

\* What the data file at path states.
FileTriples(path) == call.before[path].data.triples

\* What the store holds once the first k load calls are done.
StoreAfter(k) == OpenedTriples \cup UNION {FileTriples(LoadCalls[i].path) : i \in 1..k}

RECURSIVE SumPrinted(_)
SumPrinted(loads) ==
    IF loads = <<>> THEN 0 ELSE Head(loads).printed.val + SumPrinted(Tail(loads))

\* The summary the invocation printed.
PrintedSummary == call.log[Len(call.log)]

\* C11: on a successful bulk load the count printed for each file is the
\* store's triple count after that file less the count before it, never
\* negative; the printed total is the sum of these counts, and it is the store's
\* final triple count less its count when it was opened.
C11_CountsAddUp ==
    (LoadEnded /\ call.res.ok) =>
        /\ \A k \in 1..Len(LoadCalls) :
            /\ LoadCalls[k].printed
                  = Some(Cardinality(StoreAfter(k)) - Cardinality(StoreAfter(k - 1)))
            /\ LoadCalls[k].printed.val >= 0
        /\ PrintedSummary.ev = "summary"
        /\ PrintedSummary.total = SumPrinted(LoadCalls)
        /\ disk[call.store_path] = StoreDir(StoreAfter(Len(LoadCalls)))
        /\ PrintedSummary.total
              = Cardinality(disk[call.store_path].triples) - Cardinality(OpenedTriples)
        /\ PrintedSummary.len = Cardinality(disk[call.store_path].triples)

\* Three files were loaded into a store that held a triple; two of them state
\* the same triple, which the store held already.
C11_SameTriplesTwice ==
    /\ LoadEnded
    /\ call.res.ok
    /\ call.files = <<"*.ttl", "c.turtle">>
    /\ ~call.create_new
    /\ call.before[call.store_path] = StoreDir({TA})
    /\ Len(LoadCalls) = 3
    /\ PrintedSummary.total = 1
    /\ disk[call.store_path] = StoreDir({TA, TB})

\* The event is a read or a load of a file that failed.
FileFailed(e) == e.ev \in {"read", "load_from_reader"} /\ ~e.ok

\* The error load_turtle_files returns for the failed event.
FileError(e) ==
    IF e.ev = "read" THEN Err("Failed to read file: " \o e.path)
    ELSE Err("Failed to load turtle file: " \o e.path)

\* C12: when reading or parsing a file fails the bulk load ends there with that
\* error: nothing is read, loaded or expanded after it and no summary is
\* printed; and no file that cannot be read or parsed is passed over, every
\* file the load went past was read and parsed.
C12_AbortsAtFailure ==
    LoadEnded =>
        \A i \in 1..Len(call.log) :
            /\ FileFailed(call.log[i]) =>
                /\ i = Len(call.log)
                /\ call.res = FileError(call.log[i])
            /\ (call.log[i].ev = "read" /\ i < Len(call.log)) =>
                /\ is_file(call.before, call.log[i].path)
                /\ call.log[i + 1].ev = "load_from_reader"
                /\ call.log[i + 1].path = call.log[i].path
            /\ (call.log[i].ev = "load_from_reader" /\ i < Len(call.log)) =>
                ParseGraph("Turtle", call.before[call.log[i].path].data).ok

\* e.ttl, the third file of *.ttl, did not parse: r.ttl and c.turtle were left.
C12_ThirdFileFailed ==
    /\ LoadEnded
    /\ call.files = <<"*.ttl", "c.turtle">>
    /\ is_file(call.before, "r.ttl")
    /\ call.res = Err("Failed to load turtle file: e.ttl")
    /\ Len(LoadCalls) = 3
    /\ call.log[Len(call.log)] = LoadCall("e.ttl", None, None)

\* C13: every call of load_from_reader a bulk load makes is given the base IRI
\* the load command was given, and none when it was given none.
C13_BaseIriPassed ==
    LoadEnded => \A k \in 1..Len(LoadCalls) : LoadCalls[k].base = call.base_iri

\* The half of C13 the code keeps: without a base IRI the calls have none.
C13_NoBaseWithoutOne ==
    (LoadEnded /\ call.base_iri = None) =>
        \A k \in 1..Len(LoadCalls) : LoadCalls[k].base = None

\* What a call of this step on the registered store n did to the registry.
C14_Cleared(n) ==
    /\ call'.ret = "OK"
    /\ STORES' = Some([STORES.val EXCEPT ![n] = {}])
    /\ get_store_size(STORES', INITIALIZED', Utf8(n), Ok({})).ret = "0"
    /\ ContainsStr(list_stores(STORES', INITIALIZED', Ok({})).ret, "\"" \o n \o "\"")

C14_Step ==
    (PluginStep({"clear_store"}) /\ Registered(STORES, call'.name.text)) =>
        C14_Cleared(call'.name.text)

\* C14: clear_store on a registered name returns "OK" and leaves that store
\* empty and registered: get_store_size then returns "0" and list_stores still
\* names it; the registered names are the same and every other store holds
\* what it held.
C14_ClearKeepsName == [][C14_Step]_vars

\* Store a was cleared while memory holds triples.
C14_ClearedOne ==
    /\ call.fe = "plugin"
    /\ call.op = "clear_store"
    /\ call.name = Utf8("a")
    /\ call.ret = "OK"
    /\ STORES = Some([n \in {"memory", "a"} |-> IF n = "a" THEN {} ELSE {TA, TB}])

\* The error a shape-specific entry point returns for a result of another shape.
WrongShapeError(shape) ==
    IF shape = "Solutions" THEN "ERROR: SELECT queries should use query function"
    ELSE IF shape = "Boolean" THEN "ERROR: ASK queries should use query_ask function"
    ELSE "ERROR: CONSTRUCT queries should use query_construct function"

\* What the engine answered the call of this step, on the store it names.
C15_Answer == EngineQuery(STORES'.val[call'.name.text], call'.arg.text).val

\* The buffer of the call of this step for a result of its entry point's shape.
C15_OwnShapePayload ==
    IF call'.op = "query_construct" THEN call'.ret = TurtleText(C15_Answer.triples)
    ELSE call'.ret = (IF C15_Answer.b THEN "true" ELSE "false")

C15_Step ==
    PluginStep({"query_construct", "query_ask"}) =>
        /\ ~StartsWith(call'.ret, "ERROR: ") => call'.shape = ShapeOf(call'.op)
        /\ call'.shape = ShapeOf(call'.op) =>
              C15_OwnShapePayload /\ ~StartsWith(call'.ret, "ERROR: ")
        /\ call'.shape \notin {"", ShapeOf(call'.op)} =>
              call'.ret = WrongShapeError(call'.shape)
        /\ \/ STORES' = STORES
           \/ ~STORES.some /\ STORES' = Some([m \in {"memory"} |-> {}])

\* C15: query_construct returns the serialized graph only for a Graph result
\* and query_ask returns "true" or "false" only for a Boolean result; for a
\* result of another shape each returns the error that names the entry point of
\* that shape; neither changes a store or the registered names (the first call
\* of an instance makes the registry with its empty default store).
C15_OwnShapeOnly == [][C15_Step]_vars

\* query_construct was handed an ASK query on a store that holds triples.
C15_AskThroughConstruct ==
    /\ call.fe = "plugin"
    /\ call.op = "query_construct"
    /\ call.name = Utf8("a")
    /\ call.arg = Utf8(QAsk)
    /\ call.shape = "Boolean"
    /\ call.ret = "ERROR: ASK queries should use query_ask function"
    /\ STORES.val["a"] = {TA}

\* A lexical value tried as a bare i64, then as a bare finite f64, else itself.
C16_Bare(value) ==
    IF ParseI64(value).ok THEN JInt(ParseI64(value).val)
    ELSE IF ParseF64(value).ok /\ ParseF64(value).val.finite THEN JFloat(ParseF64(value).val)
    ELSE JString(value)

\* A literal was projected by the plugin's query.
PluginLiteralProjected ==
    output # NotRun /\ output.by = "query" /\ input.term.kind = "Literal"

\* A literal without a recognized numeric datatype was projected by the CLI.
CliOtherLiteralProjected ==
    /\ output # NotRun
    /\ output.by # "query"
    /\ input.term.kind = "Literal"
    /\ input.term.datatype \notin IntegerFamily \cup FloatFamily

\* C16: a literal that its datatype did not make a number (nor, in the plugin,
\* an xsd:boolean a boolean) is given the value of its lexical form tried as a
\* bare i64, then as a bare finite f64, and is the lexical string only when
\* both fail: in the plugin whatever the datatype, in the CLI when the datatype
\* is absent or no recognized numeric one.
C16_BareFallback ==
    /\ PluginLiteralProjected =>
          \/ output.value.t = "Number"
          \/ output.value.t = "Bool" /\ input.term.datatype = XSD_BOOLEAN
          \/ output.value = C16_Bare(input.term.value)
    /\ CliOtherLiteralProjected => output.value = C16_Bare(input.term.value)

\* The half of C16 the code keeps: the two projectors of the CLI.
C16_CliBareFallback ==
    CliOtherLiteralProjected => output.value = C16_Bare(input.term.value)

\* What C17 says a line does to the table.  A declaration is PREFIX, a name up
\* to the first colon, and the text between the "<" right after the colon and
\* the next ">"; strict says whether text after that ">" makes the line
\* malformed or is let be.
C17_Line(table, rawline, strict) ==
    LET line == Trim(rawline)
        rest == Trim(DropFirst(line, 6))
        colon == Find(rest, ":")
        name == Trim(SubSeq(rest, 1, colon - 1))
        after == Trim(DropFirst(rest, colon))
        close == Find(after, ">")
    IN  IF /\ StartsWith(ToUpper(line), "PREFIX")
           /\ colon # 0
           /\ StartsWith(after, "<")
           /\ close # 0
           /\ strict => DropFirst(after, close) = ""
        THEN Insert(table, name, SubSeq(after, 2, close - 1))
        ELSE table

RECURSIVE C17_Table(_, _, _)
C17_Table(table, lines, strict) ==
    IF lines = <<>> THEN table
    ELSE C17_Table(C17_Line(table, Head(lines), strict), Tail(lines), strict)

DefaultNames == {"rdf", "rdfs", "owl", "xsd", "foaf", "dc", "dcterms", "skos"}

\* C17: extract_prefixes returns a table for every text; the table has the
\* eight common names; each well-formed PREFIX line, in either case, sets its
\* name to the namespace between the angle brackets right after the colon, the
\* last declaration of a name winning over earlier ones and over the common
\* entry; a malformed line changes nothing.  Text after the closing bracket
\* may count as malformed or not.
C17_PrefixTable ==
    (output # NotRun /\ output.by = "extract_prefixes") =>
        /\ DefaultNames \subseteq DOMAIN output.table
        /\ \/ output.table = C17_Table(DefaultPrefixes, Lines(input.text), TRUE)
           \/ output.table = C17_Table(DefaultPrefixes, Lines(input.text), FALSE)

\* The line has no second ">" after its first.
OneClose(line) == Find(DropFirst(line, Find(line, ">")), ">") = 0

\* What C17 says, of the texts whose lines have one ">" at most.
C17_OneDeclarationPerLine ==
    (/\ output # NotRun
     /\ output.by = "extract_prefixes"
     /\ \A i \in 1..Len(Lines(input.text)) : OneClose(Lines(input.text)[i])) =>
        /\ DefaultNames \subseteq DOMAIN output.table
        /\ output.table = C17_Table(DefaultPrefixes, Lines(input.text), TRUE)

\* The triples of the files the invocation loaded.
LoadedTriples ==
    UNION {FileTriples(LoadCalls[k].path) : k \in {i \in 1..Len(LoadCalls) : LoadCalls[i].ok}}

\* The store the invocation found at its path.
PriorStore == call.before[call.store_path]

\* The events after the first are no removal and no opening.
OpenedOnce(from) ==
    \A i \in from..Len(call.log) : call.log[i].ev \notin {"remove_dir_all", "open"}

\* C18: with create_new the store found at the path is removed first, then the
\* store is opened, empty, and only then are files loaded, so that a successful
\* load leaves exactly the triples of the files it loaded; without create_new
\* the store found is opened as it is and keeps all it held.
C18_CreateNewStartsEmpty ==
    (LoadEnded /\ exists(call.before, call.store_path)) =>
        IF call.create_new
        THEN /\ call.log[1] = Removed(call.store_path)
             /\ call.log[2] = Opened(call.store_path, {})
             /\ OpenedOnce(3)
             /\ call.res.ok => disk[call.store_path] = StoreDir(LoadedTriples)
        ELSE /\ call.log[1] = Opened(call.store_path, PriorStore.triples)
             /\ OpenedOnce(2)
             /\ disk[call.store_path] = StoreDir(PriorStore.triples \cup LoadedTriples)

\* A store holding one triple was replaced by a store holding another.
C18_PriorReplaced ==
    /\ LoadEnded
    /\ call.create_new
    /\ PriorStore = StoreDir({TB})
    /\ call.files = <<"a.ttl">>
    /\ call.res.ok
    /\ disk[call.store_path] = StoreDir({TA})

\* The invocation ended in a pattern that did not resolve.
ResolutionFailed ==
    /\ LoadEnded
    /\ call.log # <<>>
    /\ call.log[Len(call.log)].ev = "expand_glob_pattern"
    /\ ~call.log[Len(call.log)].ok

\* C20, as stated: a load with create_new on an existing store that fails in
\* the resolution of a pattern leaves a new empty store at the path.
C20_AsStated ==
    (ResolutionFailed /\ call.create_new /\ exists(call.before, call.store_path)) =>
        disk[call.store_path] = StoreDir({})

\* C20, amended: the removal comes before the first pattern is resolved; a
\* load with create_new on an existing store that fails in the resolution of a
\* pattern leaves a new store at the path without what the old one held: an
\* empty one when it was the first pattern, else one holding exactly the
\* triples of the files loaded before.
C20_RemovedBeforeResolution ==
    (ResolutionFailed /\ call.create_new /\ exists(call.before, call.store_path)) =>
        /\ call.log[1] = Removed(call.store_path)
        /\ \A i \in 1..2 : call.log[i].ev # "expand_glob_pattern"
        /\ disk[call.store_path] = StoreDir(LoadedTriples)
        /\ Len(call.log) = 3 => disk[call.store_path] = StoreDir({})

\* The only pattern named a file that is not there: the two triples are gone.
C20_PriorGone ==
    /\ ResolutionFailed
    /\ call.create_new
    /\ PriorStore = StoreDir({TA, TB})
    /\ call.files = <<"zz.ttl">>
    /\ call.res = Err("File does not exist: zz.ttl")
    /\ disk[call.store_path] = StoreDir({})

\* The call of this step is a load on a name that was not registered, of a
\* payload that does not parse, for which a store could be created.
C19_FailedLoadOnNewName ==
    /\ PluginStep(LoadOps)
    /\ ~Registered(STORES, call'.name.text)
    /\ ~ParseGraph(FormatOf(call'.op), call'.arg).ok
    /\ ~StartsWith(call'.ret, "ERROR: Failed to create store")

\* What the registry answers about the name n after this step.
C19_Known(n) ==
    /\ Registered(STORES', n)
    /\ STORES'.val[n] = {}
    /\ ContainsStr(list_stores(STORES', INITIALIZED', Ok({})).ret, "\"" \o n \o "\"")
    /\ get_store_size(STORES', INITIALIZED', Utf8(n), Ok({})).ret = "0"
    /\ clear_store(STORES', INITIALIZED', Utf8(n), Ok({})).ret = "OK"
    /\ query(STORES', INITIALIZED', Utf8(n), Utf8(QSelect), Ok({})).ret = "[]"

C19_Step ==
    C19_FailedLoadOnNewName =>
        /\ StartsWith(call'.ret, "ERROR: Failed to parse ")
        /\ C19_Known(call'.name.text)
        /\ STORES.some => \A m \in DOMAIN STORES.val :
                              m \in DOMAIN STORES'.val /\ STORES'.val[m] = STORES.val[m]

\* C19: a load on an unregistered name registers the name before it parses
\* the payload: when the payload does not parse the call returns an "ERROR: "
\* buffer and the name is registered with an empty store, so list_stores names
\* it and query, clear_store and get_store_size on it find it.
C19_FailedLoadRegisters == [][C19_Step]_vars

\* A load of garbage named a, which is registered with an empty store.
C19_RegisteredByFailure ==
    /\ call.fe = "plugin"
    /\ call.op = "load_ntriples"
    /\ call.name = Utf8("a")
    /\ call.arg = Data("garbage", {})
    /\ StartsWith(call.ret, "ERROR: Failed to parse N-Triples data")
    /\ STORES = Some([n \in {"memory", "a"} |-> {}])

\* The positions of the log at which a pattern was expanded, in order.
ExpandPositions ==
    SelectSeq([i \in 1..Len(call.log) |-> i],
              LAMBDA i : call.log[i].ev = "expand_glob_pattern")

\* The paths handed to load_from_reader, with success, between two positions.
LoadedBetween(from, to) ==
    LET calls == SelectSeq(SubSeq(call.log, from + 1, to - 1),
                           LAMBDA e : e.ev = "load_from_reader" /\ e.ok)
    IN  [k \in 1..Len(calls) |-> calls[k].path]

\* The j-th expansion is of the j-th pattern, and when another expansion
\* follows it every file the pattern resolves to was loaded in between.
C21_Interleaved(j) ==
    /\ call.log[ExpandPositions[j]].pattern = call.files[j]
    /\ j < Len(ExpandPositions) =>
          /\ call.log[ExpandPositions[j]].ok
          /\ LoadedBetween(ExpandPositions[j], ExpandPositions[j + 1])
                = expand_glob_pattern(call.before, call.files[j]).val

\* C21: the bulk loader resolves pattern j+1 only after it loaded every file
\* of pattern j, and it takes nothing back: when the load fails, at a pattern
\* or at a file, the store at the path holds what it held when it was opened
\* and the triples of every file loaded before the failure.
C21_LazyNoRollback ==
    (LoadEnded /\ Len(ExpandPositions) > 0) =>
        /\ \A j \in 1..Len(ExpandPositions) : C21_Interleaved(j)
        /\ disk[call.store_path] = StoreDir(OpenedTriples \cup LoadedTriples)

\* The second pattern matched nothing after both files of the first were
\* loaded into a new store: their triples are in it.
C21_LaterPatternFailed ==
    /\ LoadEnded
    /\ call.files = <<"[ab].ttl", "*.txt">>
    /\ PriorStore = Absent
    /\ call.res = Err("No turtle files found matching pattern: *.txt")
    /\ Len(LoadCalls) = 2
    /\ disk[call.store_path] = StoreDir({TA, TB})

====
